---- MODULE Spec2Model ----
(***************************************************************************)
(* Model of the pipeline orchestrator of the AI agent network              *)
(* (ai-agent-network/crew.py, run_crew_pipeline) together with the stage   *)
(* agents it drives through the CrewAI adapter, the rule/LLM intent        *)
(* classifier and the backend bridge.                                      *)
(*                                                                         *)
(* Texts are abstracted to what the code inspects of them:                 *)
(*  - a user task is a record of its word count and of the intent patterns *)
(*    that re.search finds in it (in INTENT_PATTERNS iteration order);     *)
(*  - a query is a sequence of tokens; lower-casing, length and substring  *)
(*    tests are computed token by token;                                   *)
(*  - a validator reply is a record saying whether it is wrapped in code   *)
(*    fences and what its body is (a JSON object, other JSON, free text    *)
(*    with or without a "valid": true|false pair).                         *)
(* Confidences are in hundredths, progress in tenths.                      *)
(***************************************************************************)
EXTENDS Integers, Sequences, FiniteSets, TLC

\* ------------------------------------------------------------------ bounds
MaxQueryLen == 2
MaxWords == 4
MaxHits == 2
MaxRetries == 3
MaxTTL == 2
MaxTime == 4

\* --------------------------------------------------------- program constants
RULE_THRESHOLD == 85
BASE_CONFIDENCE == 70
MIN_QUERY_LEN == 5

\* ------------------------------------------------------------ intent system
IntentType ==
  {"QUERY", "CONVERSATION", "SYSTEM_QUESTION", "MULTI_DB_QUERY",
   "DATA_EXPLORATION", "COMMAND", "AMBIGUOUS"}

\* Keywords crew.py looks for in a textual intent output.
IntentKeywords ==
  {"system", "connection", "conversation", "greeting", "query", "database"}

\* Keywords contained in the lower-cased name of an intent type.
NameKeywords(t) ==
  CASE t = "QUERY" -> {"query"}
    [] t = "CONVERSATION" -> {"conversation"}
    [] t = "SYSTEM_QUESTION" -> {"system"}
    [] t = "MULTI_DB_QUERY" -> {"query"}
    [] OTHER -> {}

Hit(i, c, k) == [intent |-> i, count |-> c, kws |-> k]

\* User inputs: the text, its number of words, and the INTENT_PATTERNS
\* entries that match it (intent, number of findall matches, keywords that
\* occur in the pattern text and hence in the "Matched pattern" reasoning).
Tasks ==
  { [text |-> "hi", words |-> 1,
     hits |-> << Hit("CONVERSATION", 1, {}) >>],
    [text |-> "how many orders", words |-> 3,
     hits |-> << Hit("QUERY", 1, {}) >>],
    [text |-> "describe the database structure of the orders table", words |-> 8,
     hits |-> << Hit("DATA_EXPLORATION", 1, {"database"}),
                 Hit("DATA_EXPLORATION", 1, {}) >>],
    [text |-> "compare sales across all databases for this year", words |-> 8,
     hits |-> << Hit("MULTI_DB_QUERY", 1, {"database"}),
                 Hit("MULTI_DB_QUERY", 1, {"database"}),
                 Hit("MULTI_DB_QUERY", 1, {}) >>],
    [text |-> "is the system up and running today", words |-> 7,
     hits |-> << Hit("SYSTEM_QUESTION", 1, {"system"}) >>],
    [text |-> "zzz", words |-> 1, hits |-> << >>] }

Intent(t, c, k) == [intent_type |-> t, confidence |-> c, kws |-> k]

\* Variant: short messages get no special confidence for CONVERSATION.
RuleStep_NoGreeting(best, hit, words) ==
  LET confidence ==
        IF words <= 3
          THEN 50
          ELSE IF hit.count > 1 THEN BASE_CONFIDENCE + 10
          ELSE BASE_CONFIDENCE
  IN IF confidence > best.confidence
       THEN Intent(hit.intent, confidence, hit.kws)
       ELSE best

\* One step of the pattern loop of _apply_rules.
RuleStep(best, hit, words) ==
  LET confidence ==
        IF words <= 3
          THEN (IF hit.intent = "CONVERSATION" THEN 90 ELSE 50)
          ELSE IF hit.count > 1 THEN BASE_CONFIDENCE + 10
          ELSE BASE_CONFIDENCE
  IN IF confidence > best.confidence
       THEN Intent(hit.intent, confidence, hit.kws)
       ELSE best

RECURSIVE RuleFold(_, _, _)
RuleFold(best, hits, words) ==
  IF hits = << >> THEN best
  ELSE RuleFold(RuleStep(best, Head(hits), words), Tail(hits), words)

\* IntentClassifier._apply_rules
ApplyRules(task) ==
  RuleFold(Intent("AMBIGUOUS", 30, {}), task.hits, task.words)

\* Replies of the completion service to the intent prompt, as far as
\* _classify_with_llm distinguishes them.
LLMConfidences == {60, 95}
LLMReasonKws == {{}, {"query"}, {"connection"}}
LLMIntentReplies ==
  [kind : {"ok"}, intent_type : IntentType, confidence : LLMConfidences,
   kws : LLMReasonKws]
  \cup [kind : {"malformed"}, intent_type : {"AMBIGUOUS"}, confidence : {0},
        kws : {{}}]
  \cup [kind : {"error"}, intent_type : {"AMBIGUOUS"}, confidence : {0},
        kws : {{}, {"connection"}}]

\* IntentClassifier._classify_with_llm
ClassifyWithLLM(reply) ==
  CASE reply.kind = "ok" ->
         Intent(reply.intent_type, reply.confidence, reply.kws)
    [] reply.kind = "malformed" -> Intent("AMBIGUOUS", 40, {})
    [] OTHER -> Intent("AMBIGUOUS", 30, reply.kws)

\* Variant: on equal confidence the escalation result is taken.
PrefersLLM_OnTie(llm_result, rule_result) ==
  llm_result.confidence >= rule_result.confidence

\* if llm_result["confidence"] > rule_result["confidence"]: return llm_result
PrefersLLM(llm_result, rule_result) ==
  llm_result.confidence > rule_result.confidence

\* Whether classify_intent escalates to the completion service.
NeedsLLM(task) == ~(ApplyRules(task).confidence > RULE_THRESHOLD)

\* IntentClassifier.classify_intent
ClassifyIntent(task, reply) ==
  LET rule_result == ApplyRules(task)
      llm_result == ClassifyWithLLM(reply)
  IN IF rule_result.confidence > RULE_THRESHOLD THEN rule_result
     ELSE IF PrefersLLM(llm_result, rule_result) THEN llm_result
     ELSE rule_result

\* Intent types classify_intent can return for a task.
ClassifyTypes(task) ==
  { ClassifyIntent(task, r).intent_type : r \in LLMIntentReplies }

\* ------------------------------------------------------------------ queries
\* Tokens the completion service may put into a generated query.
QueryTokens == {"SELECT", "DROP", "{"}

\* str.lower() on a token.
Lower(tok) ==
  CASE tok = "SELECT" -> "select"
    [] tok = "DROP" -> "drop"
    [] tok = "ALTER" -> "alter"
    [] tok = "Failed:" -> "failed:"
    [] OTHER -> tok

\* len() of a token.
TokLen(tok) ==
  CASE tok \in {"select", "SELECT", "delete"} -> 6
    [] tok \in {"DROP", "drop"} -> 4
    [] tok \in {"ALTER", "alter", "error"} -> 5
    [] tok = "--" -> 2
    [] tok = "Failed:" -> 7
    [] OTHER -> 1

RECURSIVE StrLen(_)
\* len() of the query string: its tokens joined by single blanks.
StrLen(q) ==
  IF q = << >> THEN 0
  ELSE IF Len(q) = 1 THEN TokLen(q[1])
  ELSE TokLen(Head(q)) + 1 + StrLen(Tail(q))

Queries == UNION { [1..n -> QueryTokens] : n \in 0..MaxQueryLen }

\* ValidationAgent.run: the phrases of its deterministic check.
banned_phrases == {"drop", "delete", "truncate", "--", ";--"}

\* phrase in query.lower()
ContainsPhrase(q, phrase) == \E i \in 1..Len(q) : Lower(q[i]) = phrase

HasBanned(q) == \E phrase \in banned_phrases : ContainsPhrase(q, phrase)

\* ------------------------------------------------------------- agent results
\* JSON values of the "valid" field of a validator reply:
\* true, false, null, key absent, "false", 0.
JValues == {"true", "false", "null", "absent", "str_false", "num_0"}

\* Python truth value of such a value (bool(x)).
Truthy(v) == v \in {"true", "str_false"}

\* parsed.get("valid", False)
GetValid(v) == IF v = "absent" THEN "false" ELSE v

\* Text a validator (or anything standing in for it) can produce.
RawTexts ==
  [fence : BOOLEAN, body : {"object"}, valid : JValues]
  \cup [fence : {FALSE}, body : {"other_json"}, valid : {"absent"}]
  \cup [fence : {FALSE}, body : {"text"},
        valid : {"pat_true", "pat_false", "nopat"}]

PlainText == [fence |-> FALSE, body |-> "text", valid |-> "nopat"]
EmptyObject == [fence |-> FALSE, body |-> "object", valid |-> "absent"]

\* The dict an agent's run() returns, reduced to the keys the adapter and
\* crew.py look at.
Result(ok, ks, q, v, m) ==
  [success |-> ok, keys |-> ks, query |-> q, valid |-> v, message |-> m]

ErrorResult == Result(FALSE, {"success", "error"}, << >>, "absent", "")

\* Replies of the completion service to the query prompt.
QueryReplies == [kind : {"ok"}, text : Queries] \cup {[kind |-> "error", text |-> << >>]}

\* QueryAgent.run
QueryAgentRun(task, hasSchema, reply) ==
  IF task.text = "" \/ ~hasSchema THEN ErrorResult
  ELSE IF reply.kind = "error" THEN ErrorResult
  ELSE IF ~(reply.text # << >> /\ Lower(reply.text[1]) = "select")
          /\ ~(\E i \in 1..Len(reply.text) : reply.text[i] = "{")
    THEN ErrorResult
  ELSE Result(TRUE, {"success", "query"}, reply.text, "absent", "")

\* Replies of the completion service to the validation prompt.
ValidatorReplies ==
  [kind : {"ok"}, raw : RawTexts] \cup {[kind |-> "error", raw |-> PlainText]}

\* json.loads succeeds on the text as it stands.
DecodesDirectly(raw) == ~raw.fence /\ raw.body # "text"

\* Variant: an error of the completion service counts as approval.
ValidationSecurityAgentRun_FailOpen(task, query, reply) ==
  IF query = << >> \/ task.text = "" THEN ErrorResult
  ELSE IF reply.kind = "error"
    THEN Result(TRUE, {"success", "valid", "reason"}, << >>, "true", "")
  ELSE IF ~DecodesDirectly(reply.raw)
    THEN Result(TRUE, {"success", "valid", "reason"}, << >>, "false", "")
  ELSE IF reply.raw.body = "other_json" THEN ErrorResult
  ELSE Result(TRUE, {"success", "valid", "reason"}, << >>,
              GetValid(reply.raw.valid), "")

\* ValidationSecurityAgent.run
ValidationSecurityAgentRun(task, query, reply) ==
  IF query = << >> \/ task.text = "" THEN ErrorResult
  ELSE IF reply.kind = "error" THEN ErrorResult
  ELSE IF ~DecodesDirectly(reply.raw)
    THEN Result(TRUE, {"success", "valid", "reason"}, << >>, "false", "")
  ELSE IF reply.raw.body = "other_json" THEN ErrorResult
  ELSE Result(TRUE, {"success", "valid", "reason"}, << >>,
              GetValid(reply.raw.valid), "")

\* Whether ValidationSecurityAgent.run reaches the completion-service call.
ValidationCallsLLM(task, query) == ~(query = << >> \/ task.text = "")

\* ---------------------------------------------------------- CrewAI adapter
\* What a task of a crew yields to crew.py (getattr(result, identifier, d)).
Out(k, f, q, r, v, m) ==
  [kind |-> k, form |-> f, query |-> q, raw |-> r, valid |-> v, message |-> m,
   success |-> TRUE]

\* CrewAIAgentAdapter.adapt_agent._execute_task
ExecuteTask(result) ==
  IF ~result.success
    THEN Out("str", "failed", <<"Failed:", "error">>, PlainText, "absent", "text")
  ELSE IF "query" \in result.keys
    THEN Out("str", "query", result.query, PlainText, "absent", "text")
  ELSE IF "message" \in result.keys
    THEN Out("str", "message", << >>, PlainText, "absent", result.message)
  ELSE IF "chart_code" \in result.keys
    THEN Out("dict", "chart", << >>, PlainText, "absent", "text")
  ELSE IF "valid" \in result.keys
    THEN Out("dict", "verdict", << >>, PlainText, result.valid, "")
  ELSE IF "schema" \in result.keys
    THEN Out("dict", "schema", << >>, PlainText, "absent", "")
  ELSE Out("str", "repr", << >>, PlainText, "absent", "text")

\* The agent's own dict handed through unchanged.
RawDict(result) ==
  [Out("dict", "raw", result.query, PlainText,
       IF "valid" \in result.keys THEN result.valid ELSE "absent",
       result.message)
   EXCEPT !.success = result.success]

\* What crew.py gets back for a task of a crew: the adapter's return value,
\* the agent's dict itself, or nothing under the task's identifier (then the
\* getattr default applies).
Shapes == {"adapted", "raw", "missing"}

Yield(shape, result, default) ==
  CASE shape = "adapted" -> ExecuteTask(result)
    [] shape = "raw" -> RawDict(result)
    [] OTHER -> default

EmptyDict == Out("dict", "empty", << >>, PlainText, "absent", "")
EmptyStr == Out("str", "empty", << >>, PlainText, "absent", "")
TextOut(raw) == Out("str", "text", << >>, raw, "absent", "text")

\* -------------------------------------------------------------- chat agent
\* ChatAgent._classify_intent: the keys of the classification it returns
\* (classify_intent's dict plus a success flag).
IntentResultDict ==
  Result(TRUE, {"intent_type", "confidence", "reasoning", "success"},
         << >>, "absent", "")

ChatOrder ==
  <<"SYSTEM_QUESTION", "CONVERSATION", "DATA_EXPLORATION", "MULTI_DB_QUERY",
    "COMMAND">>
ChatHandlerNames ==
  <<"system", "conversation", "exploration", "multi_db", "command">>

\* ChatAgent.run: the handlers the dispatch chain can end in.  Every test of
\* the chain classifies the task anew, so a test can pass when its intent is
\* a possible classification (or its flag is set) and can fail when the flag
\* is unset and another classification is possible.
ChatHandlers(task, isSystem, isConversation) ==
  LET T == ClassifyTypes(task)
      flag(k) == (k = 1 /\ isSystem) \/ (k = 2 /\ isConversation)
      CanPass(k) == flag(k) \/ ChatOrder[k] \in T
      CanFail(k) == ~flag(k) /\ T # {ChatOrder[k]}
  IN { ChatHandlerNames[k] : k \in { i \in 1..5 :
          CanPass(i) /\ \A j \in 1..(i - 1) : CanFail(j) } }
     \cup (IF \A j \in 1..5 : CanFail(j) THEN {"explain"} ELSE {})

\* The result of the handler (message is the stripped completion text).
ChatResult(handler, hasRawOutput, message) ==
  IF handler = "explain" /\ ~hasRawOutput THEN ErrorResult
  ELSE IF handler \in {"exploration", "multi_db", "command"}
    THEN Result(TRUE, {"success", "type", "agent", "message"}, << >>, "absent", "text")
  ELSE Result(TRUE, {"success", "type", "agent", "message"}, << >>, "absent", message)

Messages == {"text", ""}

\* ------------------------------------------------------- crew.py, parsing
\* Intent parsing of run_crew_pipeline on the intent crew's output.
ParseIntent(out, intent) ==
  IF out.kind = "dict"
    THEN (IF out.form = "raw" THEN intent.intent_type ELSE "unknown")
  ELSE LET K == NameKeywords(intent.intent_type) \cup intent.kws
       IN IF out.form # "repr" THEN "unknown"
          ELSE IF K \cap {"system", "connection"} # {} THEN "system_question"
          ELSE IF K \cap {"conversation", "greeting"} # {} THEN "conversation"
          ELSE IF K \cap {"query", "database"} # {} THEN "query"
          ELSE "unknown"

\* Extraction of the response text in the short-circuit branches.
ResponseText(out, default) ==
  IF out.message # "" THEN out.message ELSE default

\* Extraction of the query string from the query crew's output.
QueryStr(out) == out.query

\* The length test on the generated query.
QueryTooShort(q) == q = << >> \/ StrLen(q) < MIN_QUERY_LEN

\* Variant: a parser that takes an unreadable verdict for a valid one.
ParseValidation_FailOpen(out) ==
  IF out.kind = "str"
    THEN CASE out.raw.body = "object" ->
                IF Truthy(GetValid(out.raw.valid)) THEN "valid" ELSE "invalid"
           [] out.raw.body = "other_json" -> "raise"
           [] OTHER ->
                IF out.raw.valid = "pat_false" THEN "invalid" ELSE "valid"
  ELSE IF Truthy(GetValid(out.valid)) THEN "valid" ELSE "invalid"

\* Parsing of the validation crew's output: "raise" when .get is applied to
\* a decoded value that is not a dict, else the truth value of "valid".
ParseValidation(out) ==
  IF out.kind = "str"
    THEN CASE out.raw.body = "object" ->
                IF Truthy(GetValid(out.raw.valid)) THEN "valid" ELSE "invalid"
           [] out.raw.body = "other_json" -> "raise"
           [] OTHER ->
                IF out.raw.valid = "pat_true" THEN "valid" ELSE "invalid"
  ELSE IF Truthy(GetValid(out.valid)) THEN "valid" ELSE "invalid"

\* ---------------------------------------------------------- backend bridge
DbInfos == {"ok", "no_id", "malformed"}
SchemaReplies == {"fail", "no_schema", "empty_tables", "tables"}
BackendReplies == {"error", "rows", "empty_rows", "no_rows_key", "empty"}

\* fetch_schema_for_user_db
FetchSchemaForUserDb(dbInfo, reply) == IF dbInfo = "no_id" THEN "fail" ELSE reply

\* fetch_query_result
FetchQueryResult(dbInfo, reply) == IF dbInfo = "no_id" THEN "error" ELSE reply

\* ------------------------------------------------------------------- state
Stages ==
  {"schema", "query", "validation", "semantic", "execution", "visualization",
   "explanation", "chat"}
FinalTasks == {"visualization_task", "chat_task"}

VARIABLES
  pc,             \* position of the run in run_crew_pipeline
  task,           \* argument task
  visualize,      \* argument visualize
  db_info,        \* argument db_info
  status,         \* task_context["status"]
  progress,       \* task_context["progress"], in tenths
  agents_called,  \* task_context["agents_called"]
  current_agent,  \* task_context["current_agent"]
  errors,         \* task_context["errors"], the agent of each entry
  intent,         \* task_context["intent"]: "none" or "recorded"
  intent_output,  \* intent type inside the chat agent's classification
                  \* (the content of intent_output), "none" before it
  intent_type,    \* local intent_type
  context,        \* keys of the user's session context
  query_str,      \* local query_str
  raw_output,     \* the validator's reply (raw_output of the validation agent)
  is_valid,       \* local is_valid ("none" before validation)
  db_response,    \* local db_response
  agents_local,   \* local agents_called of the final part
  running,        \* state of each task of remaining_crew:
                  \* "idle", "running", or finished "ok" / "fail"
  outputs,        \* output of each task of remaining_crew
  result,         \* the returned dict
  calls,          \* how often each stage was invoked in this run
  trace,          \* stage events of this run, in order
  classifier,     \* a call of IntentClassifier.classify_intent on its own
  api,            \* a call of APIClient.call_anthropic_api on its own
  store,          \* the session context store with its clock
  cache,          \* the session context store with its contents and callers
  manager,        \* the WebSocketManager singleton and its clients
  loop,           \* the event loop of the thread calling run_crew_pipeline
  runs,           \* the task contexts of two concurrent runs
  limiter         \* an APIRateLimiter with its store and clock

vars ==
  <<pc, task, visualize, db_info, status, progress, agents_called,
    current_agent, errors, intent, intent_output, intent_type, context,
    query_str, raw_output, is_valid, db_response, agents_local, running,
    outputs, result, calls, trace, classifier, api, store, cache, manager,
    loop, runs, limiter>>

\* The components that take no step while run_crew_pipeline is followed.
components == <<classifier, api, store, cache, manager, loop, runs,
                 limiter>>

Ret(ok, err, hasAgents, agents, text, viz, q) ==
  [success |-> ok, error |-> err, has_agents_called |-> hasAgents,
   agents_called |-> agents, text |-> text, visualization |-> viz, query |-> q]

NoResult == Ret(FALSE, "none", FALSE, << >>, "", "none", << >>)

NoReply == [kind |-> "none", raw |-> PlainText]

\* Variant: the progress is already 1.0 when the final tasks are prepared.
Progress_EarlyFull(step) ==
  CASE step = "detect" -> 1
    [] step = "schema" -> 2
    [] step = "query" -> 3
    [] step = "validation" -> 5
    [] step = "execution" -> 6
    [] step = "visualization" -> 8
    [] step = "explanation" -> 10
    [] OTHER -> 10

\* The values task_context["progress"] is set to, in tenths.
Progress(step) ==
  CASE step = "detect" -> 1
    [] step = "schema" -> 2
    [] step = "query" -> 3
    [] step = "validation" -> 5
    [] step = "execution" -> 6
    [] step = "visualization" -> 8
    [] step = "explanation" -> 9
    [] OTHER -> 10

\* create_task_context
InitRun ==
  /\ pc = "idle"
  /\ task \in Tasks
  /\ visualize \in BOOLEAN
  /\ db_info \in DbInfos
  /\ status = "pending"
  /\ progress = 0
  /\ agents_called = << >>
  /\ current_agent = "none"
  /\ errors = << >>
  /\ intent = "none"
  /\ intent_output = "none"
  /\ intent_type = "unset"
  /\ context = {}
  /\ query_str = << >>
  /\ raw_output = NoReply
  /\ is_valid = "none"
  /\ db_response = "none"
  /\ agents_local = << >>
  /\ running = [t \in FinalTasks |-> "idle"]
  /\ outputs = [t \in FinalTasks |-> EmptyDict]
  /\ result = NoResult
  /\ calls = [s \in Stages |-> 0]
  /\ trace = << >>

ClassifierIdle == [pc |-> "idle"]
ApiIdle == [pc |-> "idle"]
StoreIdle == [pc |-> "idle"]
CacheIdle == [pc |-> "idle"]
ManagerIdle == [pc |-> "idle"]
RunsIdle == [pc |-> "idle"]
LimiterIdle == [pc |-> "idle"]

\* The other components at rest.  server.py calls run_crew_pipeline from a
\* coroutine, so the calling thread has a running event loop.
Others ==
  /\ cache = CacheIdle
  /\ manager = ManagerIdle
  /\ loop = "running"
  /\ runs = RunsIdle
  /\ limiter = LimiterIdle

Init ==
  /\ InitRun
  /\ classifier = ClassifierIdle
  /\ api = ApiIdle
  /\ store = StoreIdle
  /\ Others

Ev(stage, event) == <<stage, event>>
Called(stage) == [calls EXCEPT ![stage] = @ + 1]

\* append_to_context
AppendToContext(ctx, keys) == ctx \cup keys \cup {"_last_updated"}

\* set_context
SetContext(ctx, keys) == keys \cup {"_last_updated"}

\* The except clause of run_crew_pipeline.
Raise ==
  /\ status' = "failed"
  /\ errors' = Append(errors, "exception")
  /\ result' = Ret(FALSE, "orchestration_error", FALSE, << >>, "", "none", << >>)
  /\ pc' = "done"

\* A failure return of run_crew_pipeline that records the error.
Fail(err, agent, agents) ==
  /\ status' = "failed"
  /\ errors' = Append(errors, agent)
  /\ result' = Ret(FALSE, err, TRUE, agents, "", "none", << >>)
  /\ pc' = "done"

\* Variant: the publish is not wrapped in a try of its own.
Scheduling_Unguarded(l) == IF l = "running" THEN "scheduled" ELSE "raised"

\* try: loop = asyncio.get_running_loop(); loop.create_task(...) except: log.
\* With a running loop the coroutine is scheduled and runs once the loop is
\* free; without one get_running_loop raises RuntimeError, which is logged.
Scheduling(l) == IF l = "running" THEN "scheduled" ELSE "logged"

\* run_crew_pipeline, entry: the task context is created and marked running
\* and the pipeline start is published.  The loop of the calling thread
\* does not change during the call, so the publishes of the later stages
\* end as this one does.
StartRun ==
  /\ UNCHANGED components
  /\ pc = "idle"
  /\ IF Scheduling(loop) = "raised"
       THEN Raise
       ELSE /\ status' = "in_progress"
            /\ pc' = "classify"
            /\ UNCHANGED <<errors, result>>
  /\ UNCHANGED <<task, visualize, db_info, progress, agents_called,
                 current_agent, intent, intent_output, intent_type, context,
                 query_str, raw_output, is_valid, db_response, agents_local, running,
                 outputs, calls, trace>>

\* First classification, by IntentClassifier directly; its result is only
\* recorded (task context and session context).
Classify ==
  /\ UNCHANGED components
  /\ pc = "classify"
  /\ \E reply \in LLMIntentReplies :
       intent' = IF ClassifyIntent(task, reply).intent_type \in IntentType
                   THEN "recorded" ELSE "none"
  /\ context' = AppendToContext(context, {"last_intent"})
  /\ pc' = "detect"
  /\ UNCHANGED <<task, visualize, db_info, status, progress, agents_called,
                 current_agent, errors, intent_output, intent_type, query_str, raw_output, is_valid,
                 db_response, agents_local, running, outputs, result, calls,
                 trace>>

\* Intent detection through the chat agent's crew and parsing of its output.
DetectIntent ==
  /\ UNCHANGED components
  /\ pc = "detect"
  /\ progress' = Progress("detect")
  /\ current_agent' = "chat_agent"
  /\ agents_called' = Append(agents_called, "chat_agent")
  /\ calls' = Called("chat")
  /\ \E reply \in LLMIntentReplies, shape \in Shapes :
       LET classified == ClassifyIntent(task, reply)
       IN /\ intent_output' = classified.intent_type
          /\ intent_type' =
               ParseIntent(Yield(shape, IntentResultDict, EmptyDict), classified)
  /\ pc' = "dispatch"
  /\ UNCHANGED <<task, visualize, db_info, status, errors, intent, context,
                 query_str, raw_output, is_valid, db_response, agents_local, running,
                 outputs, result, trace>>

IsSystemQuestion(t) == t \in {"system_question", "SYSTEM_QUESTION"}
IsConversation(t) == t \in {"conversation", "unknown", "ambiguous", "CONVERSATION"}
IsDataExploration(t) == t = "DATA_EXPLORATION"

\* Branch for system questions.
SystemQuestion ==
  /\ UNCHANGED components
  /\ pc = "dispatch"
  /\ IsSystemQuestion(intent_type)
  /\ current_agent' = "chat_agent"
  /\ calls' = Called("chat")
  /\ \E h \in ChatHandlers(task, TRUE, FALSE), m \in Messages, shape \in Shapes :
       LET out == Yield(shape, ChatResult(h, FALSE, m), EmptyStr)
       IN result' = Ret(TRUE, "none", TRUE, <<"chat_agent">>,
                        ResponseText(out, "text"), "none", << >>)
  /\ progress' = Progress("complete")
  /\ status' = "completed"
  /\ pc' = "done"
  /\ UNCHANGED <<task, visualize, db_info, agents_called, errors, intent,
                 intent_output, intent_type, context, query_str, raw_output, is_valid, db_response,
                 agents_local, running, outputs, trace>>

\* Branch for conversation and for unknown or unparseable intents.
Conversation ==
  /\ UNCHANGED components
  /\ pc = "dispatch"
  /\ ~IsSystemQuestion(intent_type)
  /\ IsConversation(intent_type)
  /\ current_agent' = "chat_agent"
  /\ calls' = Called("chat")
  /\ \E h \in ChatHandlers(task, FALSE, TRUE), m \in Messages, shape \in Shapes :
       LET out == Yield(shape, ChatResult(h, FALSE, m), EmptyStr)
       IN result' = Ret(TRUE, "none", TRUE, <<"chat_agent">>,
                        ResponseText(out, "text"), "none", << >>)
  /\ progress' = Progress("complete")
  /\ status' = "completed"
  /\ pc' = "done"
  /\ UNCHANGED <<task, visualize, db_info, agents_called, errors, intent,
                 intent_output, intent_type, context, query_str, raw_output, is_valid, db_response,
                 agents_local, running, outputs, trace>>

\* Branch for data exploration: the chat agent explores the schema itself
\* (_handle_data_exploration fetches it from the backend).
DataExploration ==
  /\ UNCHANGED components
  /\ pc = "dispatch"
  /\ ~IsSystemQuestion(intent_type)
  /\ ~IsConversation(intent_type)
  /\ IsDataExploration(intent_type)
  /\ current_agent' = "schema_agent"
  /\ \E h \in ChatHandlers(task, FALSE, FALSE), m \in Messages, shape \in Shapes :
       LET out == Yield(shape, ChatResult(h, FALSE, m), EmptyStr)
       IN /\ result' = Ret(TRUE, "none", TRUE, <<"chat_agent", "schema_agent">>,
                           ResponseText(out, ""), "none", << >>)
          /\ calls' = IF h = "exploration"
                        THEN [calls EXCEPT !["chat"] = @ + 1, !["schema"] = @ + 1]
                        ELSE Called("chat")
          /\ trace' = IF h = "exploration"
                        THEN Append(trace, Ev("schema", "start"))
                        ELSE trace
  /\ progress' = Progress("complete")
  /\ status' = "completed"
  /\ pc' = "done"
  /\ UNCHANGED <<task, visualize, db_info, agents_called, errors, intent,
                 intent_output, intent_type, context, query_str, raw_output, is_valid, db_response,
                 agents_local, running, outputs>>

\* if not schema_result.get("success", False)
SchemaFailed(r) == r = "fail"

\* Variant: only a missing schema counts, an empty table list passes.
NoTables_MissingOnly(r) == r = "no_schema"

\* if not schema_output or not schema_output.get("tables", [])
NoTables(r) == r \in {"no_schema", "empty_tables"}

QueryPath(t) == ~IsSystemQuestion(t) /\ ~IsConversation(t) /\ ~IsDataExploration(t)

\* Schema fetch from the backend, the checks on it and the construction of
\* the UserDatabase.
FetchSchema ==
  /\ UNCHANGED components
  /\ pc = "dispatch"
  /\ QueryPath(intent_type)
  /\ progress' = Progress("schema")
  /\ current_agent' = "schema_agent"
  /\ calls' = Called("schema")
  /\ \E reply \in SchemaReplies :
       LET schema_result == FetchSchemaForUserDb(db_info, reply)
       IN /\ trace' = trace \o <<Ev("schema", "start"),
                                 Ev("schema", IF schema_result = "tables"
                                                THEN "ok" ELSE "fail")>>
          /\ CASE SchemaFailed(schema_result) ->
                 /\ Fail("Could not retrieve database schema",
                         "schema_agent", <<"chat_agent", "schema_agent">>)
                 /\ UNCHANGED context
            [] ~SchemaFailed(schema_result) /\ NoTables(schema_result) ->
                 /\ Fail("No tables found in database schema.",
                         "schema_agent", <<"chat_agent", "schema_agent">>)
                 /\ UNCHANGED context
            [] OTHER ->
                 /\ IF db_info = "malformed"
                      THEN Raise /\ UNCHANGED context
                      ELSE /\ context' = AppendToContext(context, {"schema"})
                           /\ pc' = "generate"
                           /\ UNCHANGED <<status, errors, result>>
  /\ UNCHANGED <<task, visualize, db_info, agents_called, intent, intent_output, intent_type,
                 query_str, raw_output, is_valid, db_response, agents_local, running,
                 outputs>>

\* Query generation through the query agent's crew and the length test.
GenerateQuery ==
  /\ UNCHANGED components
  /\ pc = "generate"
  /\ progress' = Progress("query")
  /\ current_agent' = "query_agent"
  /\ agents_called' = Append(agents_called, "query_agent")
  /\ calls' = Called("query")
  /\ context' = AppendToContext(context, {"query"})
  /\ \E reply \in QueryReplies, shape \in Shapes :
       LET res == QueryAgentRun(task, TRUE, reply)
           q == QueryStr(Yield(shape, res, EmptyStr))
       IN /\ query_str' = q
          /\ trace' = trace \o <<Ev("query", "start"),
                                 Ev("query", IF res.success THEN "ok" ELSE "fail")>>
          /\ IF QueryTooShort(q)
               THEN Fail("Failed to generate a valid database query for your request.",
                         "query_agent",
                         <<"chat_agent", "schema_agent", "query_agent">>)
               ELSE /\ pc' = "validate"
                    /\ UNCHANGED <<status, errors, result>>
  /\ UNCHANGED <<task, visualize, db_info, intent, intent_output, intent_type, raw_output, is_valid,
                 db_response, agents_local, running, outputs>>

AfterValidation == <<"chat_agent", "query_agent", "validation_agent">>

\* Variant: a gate that lets every parsed verdict through.
ExecutionAllowed_Always(verdict) == verdict \in {"valid", "invalid"}

\* The gate on the verdict (if not is_valid: ... return).
ExecutionAllowed(verdict) == verdict = "valid"

\* Validation through the validation agent's crew, parsing of the verdict
\* and the gate on it.
Validate ==
  /\ UNCHANGED components
  /\ pc = "validate"
  /\ progress' = Progress("validation")
  /\ current_agent' = "validation_agent"
  /\ agents_called' = Append(agents_called, "validation_agent")
  /\ calls' = IF ValidationCallsLLM(task, query_str)
                THEN [calls EXCEPT !["validation"] = @ + 1, !["semantic"] = @ + 1]
                ELSE Called("validation")
  /\ \E reply \in ValidatorReplies, shape \in Shapes \cup {"text"} :
       LET res == ValidationSecurityAgentRun(task, query_str, reply)
           out == IF shape = "text" /\ reply.kind = "ok"
                    THEN TextOut(reply.raw)
                    ELSE Yield(shape, res, TextOut(EmptyObject))
           verdict == ParseValidation(out)
       IN /\ raw_output' = IF ValidationCallsLLM(task, query_str) THEN reply ELSE NoReply
          /\ trace' = trace \o <<Ev("validation", "start"),
                                 Ev("validation", IF verdict = "valid" THEN "ok" ELSE "fail")>>
          /\ IF verdict = "raise"
               THEN Raise /\ UNCHANGED is_valid
               ELSE /\ is_valid' = IF verdict = "valid" THEN "true" ELSE "false"
                    /\ IF ~ExecutionAllowed(verdict)
                         THEN Fail("Query failed validation checks",
                                   "validation_agent", AfterValidation)
                         ELSE IF query_str = << >>
                           THEN Fail("Query generation did not return a valid string.",
                                     "query_agent", AfterValidation)
                           ELSE /\ pc' = "execute"
                                /\ UNCHANGED <<status, errors, result>>
  /\ UNCHANGED <<task, visualize, db_info, intent, intent_output, intent_type, context,
                 query_str, db_response, agents_local, running, outputs>>

HasError(r) == r = "error"
HasRows(r) == r \in {"rows", "empty_rows"}

\* execute_db_query and the checks on the backend's response.
Execute ==
  /\ UNCHANGED components
  /\ pc = "execute"
  /\ progress' = Progress("execution")
  /\ calls' = Called("execution")
  /\ context' = AppendToContext(context, {"query_result"})
  /\ \E reply \in BackendReplies :
       LET r == FetchQueryResult(db_info, reply)
       IN /\ db_response' = r
          /\ trace' = trace \o <<Ev("execution", "start"),
                                 Ev("execution", IF HasRows(r) THEN "ok" ELSE "fail")>>
          /\ IF HasError(r)
               THEN Fail("Database query execution failed", "backend_bridge",
                         AfterValidation)
               ELSE IF r = "empty" \/ ~HasRows(r)
                 THEN /\ result' = Ret(FALSE, "No data returned from database.",
                                       TRUE, AfterValidation, "", "none", query_str)
                      /\ pc' = "done"
                      /\ UNCHANGED <<status, errors>>
                 ELSE /\ pc' = "fanout"
                      /\ UNCHANGED <<status, errors, result>>
  /\ UNCHANGED <<task, visualize, db_info, agents_called, current_agent,
                 intent, intent_output, intent_type, query_str, raw_output, is_valid, agents_local,
                 running, outputs>>

\* Preparation of the final tasks and start of remaining_crew.kickoff().
FanOut ==
  /\ UNCHANGED components
  /\ pc = "fanout"
  /\ agents_called' = IF visualize
                        THEN Append(agents_called, "visualization_agent")
                        ELSE agents_called
  /\ agents_local' = IF visualize
                       THEN AfterValidation \o <<"visualization_agent", "chat_agent">>
                       ELSE AfterValidation \o <<"chat_agent">>
  /\ progress' = Progress("explanation")
  /\ current_agent' = "chat_agent"
  /\ running' = [t \in FinalTasks |->
                   IF t = "visualization_task" /\ ~visualize THEN "idle" ELSE "running"]
  /\ calls' = IF visualize
                THEN [calls EXCEPT !["visualization"] = @ + 1, !["explanation"] = @ + 1]
                ELSE Called("explanation")
  /\ trace' = IF visualize
                THEN trace \o <<Ev("visualization", "start"), Ev("explanation", "start")>>
                ELSE Append(trace, Ev("explanation", "start"))
  /\ pc' = "join"
  /\ UNCHANGED <<task, visualize, db_info, status, errors, intent, intent_output, intent_type,
                 context, query_str, raw_output, is_valid, db_response, outputs, result>>

ChartResult ==
  Result(TRUE, {"success", "visual_type", "summary", "chart_code"}, << >>,
         "absent", "")

\* The visualization task of remaining_crew runs to its end.
RunVisualization ==
  /\ UNCHANGED components
  /\ pc = "join"
  /\ running["visualization_task"] = "running"
  /\ \E ok \in BOOLEAN, shape \in Shapes :
       LET res == IF ok THEN ChartResult ELSE ErrorResult
       IN /\ outputs' = [outputs EXCEPT !["visualization_task"] =
                           Yield(shape, res, EmptyDict)]
          /\ running' = [running EXCEPT !["visualization_task"] =
                           IF ok THEN "ok" ELSE "fail"]
  /\ UNCHANGED <<trace, pc, task, visualize, db_info, status, progress, agents_called,
                 current_agent, errors, intent, intent_output, intent_type, context,
                 query_str, raw_output, is_valid, db_response, agents_local, result, calls>>

\* The explanation task of remaining_crew runs to its end.
RunExplanation ==
  /\ UNCHANGED components
  /\ pc = "join"
  /\ running["chat_task"] = "running"
  /\ \E h \in ChatHandlers(task, FALSE, FALSE), m \in Messages, shape \in Shapes :
       LET res == ChatResult(h, TRUE, m)
       IN /\ outputs' = [outputs EXCEPT !["chat_task"] = Yield(shape, res, EmptyDict)]
          /\ running' = [running EXCEPT !["chat_task"] =
                           IF res.success THEN "ok" ELSE "fail"]
  /\ UNCHANGED <<trace, pc, task, visualize, db_info, status, progress, agents_called,
                 current_agent, errors, intent, intent_output, intent_type, context,
                 query_str, raw_output, is_valid, db_response, agents_local, result, calls>>

\* Python truth value of a task output.
OutTruthy(out) == out.form # "empty"

\* Variant: kickoff() returns as soon as some task is not running.
AllFinished_Any == \E t \in FinalTasks : running[t] # "running"

\* remaining_crew.kickoff() returns when none of its tasks is running.
AllFinished == \A t \in FinalTasks : running[t] # "running"

\* kickoff() has returned: the outputs are merged, stored and returned.
Finalize ==
  /\ UNCHANGED components
  /\ pc = "join"
  /\ AllFinished
  /\ LET chat_output == outputs["chat_task"]
         viz_output == outputs["visualization_task"]
         has_viz == visualize /\ OutTruthy(viz_output)
         appended ==
           AppendToContext(IF has_viz
                             THEN AppendToContext(context, {"visualization"})
                             ELSE context, {"chat"})
     IN IF chat_output.kind = "str" \/ (has_viz /\ viz_output.kind = "str")
          THEN /\ Raise
               /\ context' = appended
               /\ trace' = trace \o <<Ev("finalize", "start"), Ev("finalize", "fail")>>
               /\ UNCHANGED progress
          ELSE /\ context' = SetContext(appended, {"task", "query", "response", "visual"})
               /\ progress' = Progress("complete")
               /\ status' = "completed"
               /\ result' = Ret(TRUE, "none", TRUE, agents_local, chat_output.message,
                                IF has_viz
                                  THEN (IF viz_output.success THEN "chart" ELSE "error")
                                  ELSE "none",
                                query_str)
               /\ trace' = trace \o <<Ev("finalize", "start"), Ev("finalize", "ok")>>
               /\ pc' = "done"
               /\ UNCHANGED errors
  /\ UNCHANGED <<task, visualize, db_info, agents_called, current_agent,
                 intent, intent_output, intent_type, query_str, raw_output, is_valid, db_response,
                 agents_local, running, outputs, calls>>

Next ==
  \/ StartRun
  \/ Classify
  \/ DetectIntent
  \/ SystemQuestion
  \/ Conversation
  \/ DataExploration
  \/ FetchSchema
  \/ GenerateQuery
  \/ Validate
  \/ Execute
  \/ FanOut
  \/ RunVisualization
  \/ RunExplanation
  \/ Finalize

Spec == Init /\ [][Next]_vars


\* ------------------------------------------------- exceptions in a run
\* Places of run_crew_pipeline where a call can raise.
ExceptionSites == {"classifier", "stage", "handler_publish", "handler_track"}

\* Variant: the usage tracking of the except clause is not guarded.
OnException_Unguarded(site) ==
  CASE site = "classifier" -> "swallowed"
    [] site = "handler_publish" -> "swallowed"
    [] site = "handler_track" -> "escapes"
    [] OTHER -> "handled"

\* What becomes of an exception raised at a site: "swallowed" by a try of
\* its own (the run goes on), "handled" by the except clause of
\* run_crew_pipeline (an error result is returned), or "escapes".
OnException(site) ==
  CASE site = "classifier" -> "swallowed"
    [] site = "handler_publish" -> "swallowed"
    [] site = "handler_track" -> "swallowed"
    [] OTHER -> "handled"

\* The exception leaves run_crew_pipeline: nothing is returned.
Escape ==
  /\ pc' = "escaped"
  /\ UNCHANGED <<status, errors, result>>

\* An exception is raised at a site; inside the except clause the publish
\* and tracking calls may raise in turn.
Throw(site) ==
  CASE OnException(site) = "escapes" -> Escape
    [] OnException(site) = "handled" ->
         \E fault \in {"none", "handler_publish", "handler_track"} :
           IF fault # "none" /\ OnException(fault) = "escapes"
             THEN Escape
             ELSE Raise
    [] OTHER -> FALSE

\* IntentClassifier.classify_intent raises in the first classification.
ClassifierRaises ==
  /\ UNCHANGED components
  /\ pc = "classify"
  /\ IF OnException("classifier") = "swallowed"
       THEN pc' = "detect" /\ UNCHANGED <<status, errors, result>>
       ELSE Throw("classifier")
  /\ UNCHANGED <<task, visualize, db_info, progress, agents_called,
                 current_agent, intent, intent_output, intent_type, context,
                 query_str, raw_output, is_valid, db_response, agents_local,
                 running, outputs, calls, trace>>

\* A crew's kickoff() raises: the assignments made before it stay, no task
\* output is delivered.
StageRaises ==
  /\ UNCHANGED components
  /\ pc \in {"detect", "dispatch", "generate", "validate", "join"}
  /\ pc = "dispatch" => ~QueryPath(intent_type)
  /\ Throw("stage")
  /\ progress' = CASE pc = "detect" -> Progress("detect")
                   [] pc = "generate" -> Progress("query")
                   [] pc = "validate" -> Progress("validation")
                   [] OTHER -> progress
  /\ current_agent' = CASE pc = "detect" -> "chat_agent"
                        [] pc = "dispatch" ->
                             IF IsSystemQuestion(intent_type)
                                \/ IsConversation(intent_type)
                               THEN "chat_agent" ELSE "schema_agent"
                        [] pc = "generate" -> "query_agent"
                        [] pc = "validate" -> "validation_agent"
                        [] OTHER -> current_agent
  /\ agents_called' = CASE pc = "detect" -> Append(agents_called, "chat_agent")
                        [] pc = "generate" -> Append(agents_called, "query_agent")
                        [] pc = "validate" ->
                             Append(agents_called, "validation_agent")
                        [] OTHER -> agents_called
  /\ calls' = CASE pc \in {"detect", "dispatch"} -> Called("chat")
                [] pc = "generate" -> Called("query")
                [] pc = "validate" -> Called("validation")
                [] OTHER -> calls
  /\ outputs' = [t \in FinalTasks |-> EmptyDict]
  /\ UNCHANGED <<task, visualize, db_info, intent, intent_output, intent_type,
                 context, query_str, raw_output, is_valid, db_response,
                 agents_local, running, trace>>

NextExc ==
  \/ Next
  \/ ClassifierRaises
  \/ StageRaises

\* Runs for a greeting and for a data question on a registered database.
InitExc ==
  /\ Init
  /\ task.text \in {"hi", "how many orders"}
  /\ db_info = "ok"

SpecExc == InitExc /\ [][NextExc]_vars


\* --------------------------------------- IntentClassifier on its own
\* Position of an INTENT_PATTERNS key in the iteration of _apply_rules.
PatternRank(t) ==
  CASE t = "QUERY" -> 1
    [] t = "CONVERSATION" -> 2
    [] t = "SYSTEM_QUESTION" -> 3
    [] t = "MULTI_DB_QUERY" -> 4
    [] t = "DATA_EXPLORATION" -> 5
    [] OTHER -> 6

ClassifierHits ==
  { Hit(t, c, {}) : t \in {"QUERY", "CONVERSATION", "SYSTEM_QUESTION"},
                    c \in 1..2 }

\* Inputs of classify_intent: a word count and the matching patterns, in
\* the order in which _apply_rules meets them.
ClassifierTasks ==
  { [text |-> "any", words |-> w, hits |-> h] :
      w \in 1..MaxWords,
      h \in { q \in UNION { [1..n -> ClassifierHits] : n \in 0..MaxHits } :
                \A i \in 1..(Len(q) - 1) :
                  PatternRank(q[i].intent) <= PatternRank(q[i + 1].intent) } }

\* Replies to the escalation call: those of LLMIntentReplies, and complete
\* JSON objects whose confidence is not a number.
EscalationReplies ==
  LLMIntentReplies
  \cup [kind : {"mistyped"}, intent_type : IntentType, confidence : {0},
        kws : {{}}]

\* classify_intent is entered with a task.
InitIntent ==
  /\ InitRun
  /\ task.text = "hi"
  /\ visualize
  /\ db_info = "ok"
  /\ api = ApiIdle
  /\ store = StoreIdle
  /\ Others
  /\ \E t \in ClassifierTasks :
       classifier = [pc |-> "rules", task |-> t,
                     rule_result |-> Intent("AMBIGUOUS", 30, {}),
                     llm_result |-> Intent("AMBIGUOUS", 30, {}),
                     llm_numeric |-> TRUE, llm_reply |-> "none",
                     llm_calls |-> 0,
                     out |-> Intent("AMBIGUOUS", 30, {})]

\* Variant: the escalation is made whatever the rules found.
NeedsEscalation_Always(rule_result) == TRUE

\* if rule_result["confidence"] > 0.85: return rule_result
NeedsEscalation(rule_result) == ~(rule_result.confidence > RULE_THRESHOLD)

\* classify_intent: the rules are applied; a confident match is returned.
ClassifierRules ==
  /\ classifier.pc = "rules"
  /\ LET rule_result == ApplyRules(classifier.task)
     IN classifier' =
          IF NeedsEscalation(rule_result)
            THEN [classifier EXCEPT !.pc = "escalate",
                                    !.rule_result = rule_result]
            ELSE [classifier EXCEPT !.pc = "returned",
                                    !.rule_result = rule_result,
                                    !.out = rule_result]
  /\ UNCHANGED <<pc, task, visualize, db_info, status, progress,
                 agents_called, current_agent, errors, intent, intent_output,
                 intent_type, context, query_str, raw_output, is_valid,
                 db_response, agents_local, running, outputs, result, calls,
                 trace, api, store, cache, manager, loop, runs,
                 limiter>>

\* classify_intent: _classify_with_llm is called.
ClassifierEscalate ==
  /\ classifier.pc = "escalate"
  /\ \E reply \in EscalationReplies :
       classifier' =
         [classifier EXCEPT
            !.pc = "combine",
            !.llm_calls = @ + 1,
            !.llm_reply = reply.kind,
            !.llm_numeric = (reply.kind # "mistyped"),
            !.llm_result =
               IF reply.kind = "mistyped"
                 THEN Intent(reply.intent_type, reply.confidence, reply.kws)
                 ELSE ClassifyWithLLM(reply)]
  /\ UNCHANGED <<pc, task, visualize, db_info, status, progress,
                 agents_called, current_agent, errors, intent, intent_output,
                 intent_type, context, query_str, raw_output, is_valid,
                 db_response, agents_local, running, outputs, result, calls,
                 trace, api, store, cache, manager, loop, runs,
                 limiter>>

\* classify_intent: the two confidences are compared; the comparison of a
\* value that is not a number with a float raises TypeError.
ClassifierCombine ==
  /\ classifier.pc = "combine"
  /\ classifier' =
       IF ~classifier.llm_numeric
         THEN [classifier EXCEPT !.pc = "raised"]
       ELSE IF PrefersLLM(classifier.llm_result, classifier.rule_result)
         THEN [classifier EXCEPT !.pc = "returned", !.out = classifier.llm_result]
       ELSE [classifier EXCEPT !.pc = "returned", !.out = classifier.rule_result]
  /\ UNCHANGED <<pc, task, visualize, db_info, status, progress,
                 agents_called, current_agent, errors, intent, intent_output,
                 intent_type, context, query_str, raw_output, is_valid,
                 db_response, agents_local, running, outputs, result, calls,
                 trace, api, store, cache, manager, loop, runs,
                 limiter>>

NextIntent ==
  \/ ClassifierRules
  \/ ClassifierEscalate
  \/ ClassifierCombine

SpecIntent == InitIntent /\ [][NextIntent]_vars


\* ------------------------------------------------- APIClient on its own
\* Outcomes of one requests.post of _call_api: a response, or a failure by
\* timeout, refused connection, rate limiting (HTTP 429), rejected
\* credentials (HTTP 401/403) or a rejected request (other HTTP 4xx).
Transient == {"timeout", "connection", "rate_limit"}
NonTransient == {"auth", "validation"}
AttemptOutcomes == {"ok"} \cup Transient \cup NonTransient

\* call_anthropic_api is entered with its retries argument.
InitApi ==
  /\ InitRun
  /\ task.text = "hi"
  /\ visualize
  /\ db_info = "ok"
  /\ classifier = ClassifierIdle
  /\ store = StoreIdle
  /\ Others
  /\ \E n \in 0..MaxRetries :
       api = [pc |-> "calling", retries |-> n, attempt |-> 1,
              failures |-> << >>, sleeps |-> 0, slept |-> << >>,
              out |-> "none"]

\* _call_api turns every failure into a StandardizedError and raises it;
\* the loop catches every Exception.
Caught(outcome) == outcome # "ok"

\* Variant: the same pause after every failed attempt.
Backoff_Constant(attempt) == 1

\* backoff_time = backoff_factor * (2 ** (attempt - 1)), in units of
\* backoff_factor
Backoff(attempt) == 2 ^ (attempt - 1)

\* One pass of the loop "for attempt in range(1, retries + 1)".
ApiAttempt ==
  /\ api.pc = "calling"
  /\ api.attempt <= api.retries
  /\ \E outcome \in AttemptOutcomes :
       api' =
         IF ~Caught(outcome)
           THEN [api EXCEPT !.pc = "returned", !.out = "response"]
         ELSE IF api.attempt = api.retries
           THEN [api EXCEPT !.pc = "raised",
                            !.failures = Append(@, outcome)]
         ELSE [api EXCEPT !.failures = Append(@, outcome),
                          !.sleeps = @ + 1,
                          !.slept = Append(@, Backoff(api.attempt)),
                          !.attempt = @ + 1]
  /\ UNCHANGED <<pc, task, visualize, db_info, status, progress,
                 agents_called, current_agent, errors, intent, intent_output,
                 intent_type, context, query_str, raw_output, is_valid,
                 db_response, agents_local, running, outputs, result, calls,
                 trace, classifier, store, cache, manager, loop, runs,
                 limiter>>

\* The loop is left without a pass (retries = 0): the function returns None.
ApiFallThrough ==
  /\ api.pc = "calling"
  /\ api.attempt > api.retries
  /\ api' = [api EXCEPT !.pc = "returned", !.out = "None"]
  /\ UNCHANGED <<pc, task, visualize, db_info, status, progress,
                 agents_called, current_agent, errors, intent, intent_output,
                 intent_type, context, query_str, raw_output, is_valid,
                 db_response, agents_local, running, outputs, result, calls,
                 trace, classifier, store, cache, manager, loop, runs,
                 limiter>>

NextApi ==
  \/ ApiAttempt
  \/ ApiFallThrough

SpecApi == InitApi /\ [][NextApi]_vars

\* The loop runs in one thread and every request has a timeout, so a pass
\* that can be made is made.
SpecApiLive == SpecApi /\ WF_vars(NextApi)


\* ---------------------------------------------- ContextManager on its own
\* One user's key.  Time is counted in whole units; `memory` is the expiry
\* stamp of the entry of _memory_cache (-1: no entry), `redis_left` the
\* remaining life of the key in Redis (0: no key).  `last_write` and
\* `last_ttl` remember the latest write, `got` what the latest get_context
\* returned at the present time.
InitStore ==
  /\ InitRun
  /\ task.text = "hi"
  /\ visualize
  /\ db_info = "ok"
  /\ classifier = ClassifierIdle
  /\ api = ApiIdle
  /\ Others
  /\ \E r \in BOOLEAN, d \in 1..MaxTTL :
       store = [use_redis |-> r, expiry_time |-> d, now |-> 0,
                memory |-> -1, redis_left |-> 0, got |-> "none",
                last_write |-> -1, last_ttl |-> 0, first_write |-> -1,
                last_op |-> "none"]

\* expiry_time = expiry or self.expiry_time
EffectiveExpiry(expiry, default) == IF expiry = 0 THEN default ELSE expiry

\* Whether the store holds an entry that a get_context would still return.
Live(s) ==
  IF s.use_redis THEN s.redis_left > 0
                 ELSE s.memory # -1 /\ s.now < s.memory

\* Variant: a write to a live entry leaves the entry's life as it was.
Refreshed_KeepOld(old, new) == IF old > 0 THEN old ELSE new

\* setex(key, expiry_time, ...) / "expiry": time.time() + expiry_time: the
\* life of the entry is set anew by the write, whatever it was before.
Refreshed(old, new) == new

\* The store after set_context has written; `first_write` is the time the
\* entry now held was first created.
Written(s, expiry, op) ==
  LET expiry_time == EffectiveExpiry(expiry, s.expiry_time)
      first == IF Live(s) THEN s.first_write ELSE s.now
      life == IF Live(s) THEN (IF s.use_redis THEN s.redis_left ELSE s.memory)
                         ELSE 0
  IN IF s.use_redis
       THEN [s EXCEPT !.redis_left = Refreshed(life, expiry_time),
                      !.got = "none",
                      !.last_write = s.now,
                      !.last_ttl = expiry_time,
                      !.first_write = first,
                      !.last_op = op]
       ELSE [s EXCEPT !.memory = Refreshed(life, s.now + expiry_time),
                      !.got = "none",
                      !.last_write = s.now,
                      !.last_ttl = expiry_time,
                      !.first_write = first,
                      !.last_op = op]

\* ContextManager.set_context; expiry 0 stands for an omitted argument.
StoreSet ==
  /\ \E expiry \in 0..MaxTTL : store' = Written(store, expiry, "set")
  /\ UNCHANGED <<pc, task, visualize, db_info, status, progress,
                 agents_called, current_agent, errors, intent, intent_output,
                 intent_type, context, query_str, raw_output, is_valid,
                 db_response, agents_local, running, outputs, result, calls,
                 trace, classifier, api, cache, manager, loop, runs,
                 limiter>>

\* ContextManager.append_to_context: get_context, update, set_context.  The
\* get drops an expired entry of the memory cache; the set then writes the
\* merged context with a life of its own.
StoreAppend ==
  /\ \E expiry \in 0..MaxTTL : store' = Written(store, expiry, "append")
  /\ UNCHANGED <<pc, task, visualize, db_info, status, progress,
                 agents_called, current_agent, errors, intent, intent_output,
                 intent_type, context, query_str, raw_output, is_valid,
                 db_response, agents_local, running, outputs, result, calls,
                 trace, classifier, api, cache, manager, loop, runs,
                 limiter>>

\* Variant: an entry is still served at its expiry stamp.
Unexpired_Inclusive(now, expiry) == now <= expiry

\* if time.time() < cache_entry.get("expiry", 0)
Unexpired(now, expiry) == now < expiry

\* ContextManager.get_context
StoreGet ==
  /\ store' =
       IF store.use_redis
         THEN [store EXCEPT !.got = IF store.redis_left > 0 THEN "data" ELSE "None"]
       ELSE IF store.memory = -1
         THEN [store EXCEPT !.got = "None"]
       ELSE IF Unexpired(store.now, store.memory)
         THEN [store EXCEPT !.got = "data"]
       ELSE [store EXCEPT !.got = "None", !.memory = -1]
  /\ UNCHANGED <<pc, task, visualize, db_info, status, progress,
                 agents_called, current_agent, errors, intent, intent_output,
                 intent_type, context, query_str, raw_output, is_valid,
                 db_response, agents_local, running, outputs, result, calls,
                 trace, classifier, api, cache, manager, loop, runs,
                 limiter>>

\* One unit of time passes; Redis ages its key.
StoreTick ==
  /\ store.now < MaxTime
  /\ store' = [store EXCEPT !.now = @ + 1,
                            !.redis_left = IF @ > 0 THEN @ - 1 ELSE 0,
                            !.got = "none"]
  /\ UNCHANGED <<pc, task, visualize, db_info, status, progress,
                 agents_called, current_agent, errors, intent, intent_output,
                 intent_type, context, query_str, raw_output, is_valid,
                 db_response, agents_local, running, outputs, result, calls,
                 trace, classifier, api, cache, manager, loop, runs,
                 limiter>>

NextStore ==
  \/ StoreSet
  \/ StoreAppend
  \/ StoreGet
  \/ StoreTick

SpecStore == InitStore /\ [][NextStore]_vars

\* ------------------------------------- ContextManager with its contents
\* One user's context, as a dict from the top-level keys to their values
\* ("absent": the key is not in the dict).  Two callers append to it, each
\* in two steps (get_context, then set_context); set_context and get_context
\* are also called on their own.  The "_last_updated" stamp that set_context
\* adds is the store's own key and is not part of the contents followed here.
CtxKeys == {"intent", "query_result"}
Callers == {"p1", "p2"}
Absent == "absent"
CtxValues == {"v0", "v1", "v2"}
Value(p) == IF p = "p1" THEN "v1" ELSE "v2"
Other(p) == IF p = "p1" THEN "p2" ELSE "p1"

\* {}
EmptyContext == [k \in CtxKeys |-> Absent]

\* None, and a context found under the user's key
None == [present |-> FALSE, data |-> EmptyContext]
Some(d) == [present |-> TRUE, data |-> d]

\* The contexts set_context is called with on its own.
SetContexts ==
  { [EmptyContext EXCEPT !["intent"] = "v0"],
    [k \in CtxKeys |-> "v0"] }

CallerIdle ==
  [pc |-> "idle", key |-> "intent", base |-> None, current |-> EmptyContext,
   linked |-> FALSE, alone |-> TRUE, ok |-> FALSE]

InitCache ==
  /\ InitRun
  /\ task.text = "hi"
  /\ visualize
  /\ db_info = "ok"
  /\ classifier = ClassifierIdle
  /\ api = ApiIdle
  /\ store = StoreIdle
  /\ manager = ManagerIdle
  /\ loop = "running"
  /\ runs = RunsIdle
  /\ limiter = LimiterIdle
  /\ \E r \in BOOLEAN :
       cache = [use_redis |-> r, redis_up |-> r, redis |-> None,
                memory |-> None, procs |-> [p \in Callers |-> CallerIdle],
                written |-> None, got |-> None, checked |-> FALSE,
                quiet |-> TRUE]

\* ContextManager.get_context: an exception of the Redis client is logged
\* and None is returned.
GetContext(c) ==
  IF c.use_redis
    THEN IF c.redis_up THEN c.redis ELSE None
    ELSE c.memory

\* ContextManager.set_context, its return value
SetContextOk(c) == ~c.use_redis \/ c.redis_up

\* ContextManager.set_context, the store it leaves
SetContextStore(c, ctx) ==
  IF c.use_redis
    THEN IF c.redis_up THEN [c EXCEPT !.redis = Some(ctx)] ELSE c
    ELSE [c EXCEPT !.memory = Some(ctx)]

\* The entry under the user's key in the store in use.
Stored(c) == IF c.use_redis THEN c.redis ELSE c.memory

\* Variant: the update replaces the context read.
Update_Replace(current, key, value) == [EmptyContext EXCEPT ![key] = value]

\* current_context.update(update_data), for an update of one key
Update(current, key, value) == [current EXCEPT ![key] = value]

\* A call that is between its two steps is no longer on its own once another
\* operation on the store takes place.
Disturbed(procs) ==
  [q \in Callers |->
     IF procs[q].pc = "read" THEN [procs[q] EXCEPT !.alone = FALSE]
                             ELSE procs[q]]

\* set_context stores a copy: the dict a caller got from the memory cache is
\* no longer the one in the cache.
Unlinked(procs) ==
  [q \in Callers |-> [procs[q] EXCEPT !.linked = FALSE]]

CacheUnchanged ==
  UNCHANGED <<pc, task, visualize, db_info, status, progress,
              agents_called, current_agent, errors, intent, intent_output,
              intent_type, context, query_str, raw_output, is_valid,
              db_response, agents_local, running, outputs, result, calls,
              trace, classifier, api, store, manager, loop, runs,
                 limiter>>

\* append_to_context, first half: get_context(user_id) or {}, then update.
\* The memory cache hands out the dict it holds, so the update is made on the
\* cached dict itself, and on the dict of a caller that holds the same one.
AppendRead(p) ==
  /\ cache.procs[p].pc = "idle"
  /\ \E key \in CtxKeys :
       LET found == GetContext(cache)
           shared == ~cache.use_redis /\ found.present
           mine == [pc |-> "read", key |-> key, base |-> found,
                    current |-> Update(found.data, key, Value(p)),
                    linked |-> shared,
                    alone |-> cache.procs[Other(p)].pc # "read",
                    ok |-> FALSE]
           theirs == cache.procs[Other(p)]
           seen == IF shared /\ theirs.pc = "read" /\ theirs.linked
                     THEN [theirs EXCEPT
                             !.current = Update(@, key, Value(p)),
                             !.alone = FALSE]
                     ELSE IF theirs.pc = "read"
                       THEN [theirs EXCEPT !.alone = FALSE]
                       ELSE theirs
       IN cache' =
            [cache EXCEPT
               !.procs = [q \in Callers |-> IF q = p THEN mine ELSE seen],
               !.memory = IF shared
                            THEN Some(Update(found.data, key, Value(p)))
                            ELSE @,
               !.got = None,
               !.checked = FALSE]
  /\ CacheUnchanged

\* append_to_context, second half: set_context(user_id, current_context)
AppendWrite(p) ==
  /\ cache.procs[p].pc = "read"
  /\ LET me == cache.procs[p]
         stored == SetContextStore(cache, me.current)
         done == [me EXCEPT !.pc = "done", !.ok = SetContextOk(cache),
                            !.linked = FALSE]
         others == Unlinked(Disturbed(cache.procs))
     IN cache' =
          [stored EXCEPT
             !.procs = [q \in Callers |-> IF q = p THEN done ELSE others[q]],
             !.written = Some(me.current),
             !.got = None,
             !.checked = FALSE]
  /\ CacheUnchanged

\* ContextManager.set_context on its own
CacheSet ==
  /\ \E ctx \in SetContexts :
       cache' =
         [SetContextStore(cache, ctx) EXCEPT
            !.procs = Unlinked(Disturbed(cache.procs)),
            !.written = Some(ctx),
            !.got = None,
            !.checked = FALSE,
            !.quiet = @ /\ \A q \in Callers : cache.procs[q].pc = "idle"]
  /\ CacheUnchanged

\* ContextManager.get_context on its own; `checked` marks a read that
\* follows a write within the life of the entry, with no append under way.
CacheGet ==
  /\ ~cache.checked
  /\ cache' =
       [cache EXCEPT
          !.got = GetContext(cache),
          !.checked = cache.written.present
                      /\ \A q \in Callers : cache.procs[q].pc # "read"]
  /\ CacheUnchanged

\* The life of the entry ends: Redis drops the key, the memory cache no
\* longer serves the entry.
CacheExpire ==
  /\ Stored(cache).present
  /\ cache' =
       [cache EXCEPT
          !.redis = None,
          !.memory = None,
          !.procs = Unlinked(Disturbed(cache.procs)),
          !.written = None,
          !.got = None,
          !.checked = FALSE,
          !.quiet = @ /\ \A q \in Callers : cache.procs[q].pc = "idle"]
  /\ CacheUnchanged

\* Redis, reached at start-up, stops answering.
RedisFails ==
  /\ cache.use_redis
  /\ cache.redis_up
  /\ cache' =
       [cache EXCEPT
          !.redis_up = FALSE,
          !.procs = Disturbed(cache.procs),
          !.got = None,
          !.checked = FALSE,
          !.quiet = FALSE]
  /\ CacheUnchanged

NextCache ==
  \/ \E p \in Callers : AppendRead(p)
  \/ \E p \in Callers : AppendWrite(p)
  \/ CacheSet
  \/ CacheGet
  \/ CacheExpire
  \/ RedisFails

SpecCache == InitCache /\ [][NextCache]_vars

\* ----------------------------------------------------- WebSocketManager
\* active_connections maps a session id to the user the connection was
\* registered for ("none": no entry).  broadcast_to_user takes the list of
\* the user's sessions and then awaits one send per session; between two
\* sends other coroutines run.  `cancel` follows a cancel_operation command
\* of a client.
Sessions == {"s1", "s2"}
Users == {"u1", "u2"}
NoConnections == [s \in Sessions |-> "none"]
NoBroadcast ==
  [pc |-> "idle", user |-> "u1", sessions |-> {}, pending |-> {},
   sent |-> {}, failed |-> {}]
SendOutcomes == {"ok", "dead"}

\* The user run_crew_pipeline is called for.
RunUser == "u1"

ManagerUnchanged ==
  UNCHANGED <<pc, task, visualize, db_info, status, progress,
              agents_called, current_agent, errors, intent, intent_output,
              intent_type, context, query_str, raw_output, is_valid,
              db_response, agents_local, running, outputs, result, calls,
              trace, classifier, api, store, cache, loop, runs,
              limiter>>

\* run_crew_pipeline is a plain function: while it runs on the thread of the
\* event loop no coroutine is resumed.
LoopFree == loop = "none" \/ pc \in {"idle", "done"}

\* WebSocketManager.connect: the entry of the session id is (re)written.
Connect(s, u) ==
  /\ LoopFree
  /\ manager.connections[s] # u
  /\ manager' = [manager EXCEPT !.connections[s] = u]
  /\ ManagerUnchanged

\* WebSocketManager.disconnect
Disconnect(s) ==
  /\ LoopFree
  /\ manager.connections[s] # "none"
  /\ manager' = [manager EXCEPT !.connections[s] = "none"]
  /\ ManagerUnchanged

\* Variant: the first failing send ends the broadcast.
SendTo_StopOnFailure(bc, s, owner, o) ==
  LET left == bc.pending \ {s}
      bad == owner = "none" \/ o = "dead"
  IN [bc EXCEPT
        !.pending = left,
        !.pc = IF left = {} \/ bad THEN "done" ELSE "sending",
        !.sent = IF ~bad THEN @ \cup {<<s, owner>>} ELSE @,
        !.failed = IF bad THEN @ \cup {s} ELSE @]

\* One turn of the loop of broadcast_to_user for session s: the entry of
\* the session is looked up and the message sent on its websocket; a missing
\* entry or a failing send is logged.
SendTo(bc, s, owner, o) ==
  LET left == bc.pending \ {s}
  IN [bc EXCEPT
        !.pending = left,
        !.pc = IF left = {} THEN "done" ELSE "sending",
        !.sent = IF owner # "none" /\ o = "ok"
                   THEN @ \cup {<<s, owner>>} ELSE @,
        !.failed = IF owner = "none" \/ o = "dead"
                     THEN @ \cup {s} ELSE @]

\* broadcast_to_user, up to the first await: the sessions of the user are
\* collected and the first send is made.  A publish of the run is a task on
\* the loop and starts when the run has returned.
BroadcastStart(u) ==
  /\ manager.bc.pc = "idle"
  /\ pc = "idle" \/ (pc = "done" /\ Scheduling(loop) = "scheduled" /\ u = RunUser)
  /\ LET sessions == { s \in Sessions : manager.connections[s] = u }
         begun == [pc |-> "sending", user |-> u, sessions |-> sessions,
                   pending |-> sessions, sent |-> {}, failed |-> {}]
     IN IF sessions = {}
          THEN manager' = [manager EXCEPT !.bc = [begun EXCEPT !.pc = "done"]]
          ELSE \E s \in sessions, o \in SendOutcomes :
                 manager' = [manager EXCEPT !.bc = SendTo(begun, s, u, o)]
  /\ ManagerUnchanged

\* broadcast_to_user resumes after an await and makes the next send.
BroadcastSend ==
  /\ manager.bc.pc = "sending"
  /\ LoopFree
  /\ \E s \in manager.bc.pending, o \in SendOutcomes :
       manager' =
         [manager EXCEPT !.bc = SendTo(@, s, manager.connections[s], o)]
  /\ ManagerUnchanged

\* A client sends {"type": "client_command", "command": "cancel_operation"}
\* while the run is in progress.
ClientCancel ==
  /\ pc \notin {"idle", "done"}
  /\ manager.cancel = "none"
  /\ manager' = [manager EXCEPT !.cancel = "sent"]
  /\ ManagerUnchanged

\* websocket_endpoint, the command branch: the command is acknowledged.
HandleCommand ==
  /\ LoopFree
  /\ manager.cancel = "sent"
  /\ manager' = [manager EXCEPT !.cancel = "acknowledged"]
  /\ ManagerUnchanged

InitWs ==
  /\ InitRun
  /\ task.text = "hi"
  /\ visualize
  /\ db_info = "ok"
  /\ classifier = ClassifierIdle
  /\ api = ApiIdle
  /\ store = StoreIdle
  /\ cache = CacheIdle
  /\ loop = "running"
  /\ runs = RunsIdle
  /\ limiter = LimiterIdle
  /\ manager = [connections |-> NoConnections, bc |-> NoBroadcast,
                cancel |-> "none"]

NextWs ==
  \/ \E s \in Sessions, u \in Users : Connect(s, u)
  \/ \E s \in Sessions : Disconnect(s)
  \/ \E u \in Users : BroadcastStart(u)
  \/ BroadcastSend

SpecWs == InitWs /\ [][NextWs]_vars

\* run_crew_pipeline with its publishes and a client that may cancel: the
\* run is called with or without a running loop, for a user with two
\* registered connections or none.  The database has no id, so a run on the
\* query path ends with the schema stage.
InitPub ==
  /\ InitRun
  /\ visualize
  /\ db_info = "no_id"
  /\ classifier = ClassifierIdle
  /\ api = ApiIdle
  /\ store = StoreIdle
  /\ cache = CacheIdle
  /\ loop \in {"running", "none"}
  /\ runs = RunsIdle
  /\ limiter = LimiterIdle
  /\ \E c \in {NoConnections, [s \in Sessions |-> RunUser]} :
       manager = [connections |-> c, bc |-> NoBroadcast, cancel |-> "none"]

NextPub ==
  \/ StartRun
  \/ Classify
  \/ DetectIntent
  \/ SystemQuestion
  \/ Conversation
  \/ DataExploration
  \/ FetchSchema
  \/ BroadcastStart(RunUser)
  \/ BroadcastSend
  \/ ClientCancel
  \/ HandleCommand

SpecPub == InitPub /\ [][NextPub]_vars

\* ====================================================================
\* The request API: run_pipeline around run_crew_pipeline
\* ====================================================================

\* The tasks a finished run of run_crew_pipeline has handed to the loop, in
\* order: pipeline_start, one agent_result for every reporting stage that
\* did not fail, and the events of its exit path.  With nothing to return from the database
\* the run hands over an intermediate_result alone.
CrewEnd(res) ==
  IF res.success THEN <<"final_result", "pipeline_end">>
  ELSE IF res.error = "No data returned from database."
    THEN <<"intermediate_result">>
    ELSE <<"error", "pipeline_end">>

Reporting == {"schema", "query", "validation", "explanation", "visualization"}

CrewEvents(res, tr) ==
  LET done == SelectSeq(tr, LAMBDA e :
                /\ e[2] = "start"
                /\ e[1] \in Reporting
                /\ \A i \in 1..Len(tr) : tr[i] # Ev(e[1], "fail"))
  IN <<"pipeline_start">> \o [i \in 1..Len(done) |-> "agent_result"]
       \o CrewEnd(res)

\* The tasks run_pipeline hands to the loop after the run has returned.
ServerEnd(res) ==
  IF res.success THEN <<"final_result", "pipeline_end">>
                 ELSE <<"error", "pipeline_end">>

\* run_pipeline has scheduled its own pipeline_start and calls the run.
ServerCalling == [pc |-> "calling", queue |-> <<"pipeline_start">>]

InitReq ==
  /\ InitRun
  /\ task.text \in {"hi", "how many orders"}
  /\ db_info \in {"ok", "no_id"}
  /\ classifier = ClassifierIdle
  /\ api = ApiIdle
  /\ store = StoreIdle
  /\ cache = CacheIdle
  /\ loop = "running"
  /\ runs = RunsIdle
  /\ limiter = LimiterIdle
  /\ manager = ServerCalling

\* run_crew_pipeline has returned: the loop holds the run's tasks, and
\* run_pipeline adds its own closing events and returns the result.
ServerReturn ==
  /\ pc = "done"
  /\ manager.pc = "calling"
  /\ manager' = [pc |-> "returned",
                 queue |-> manager.queue \o CrewEvents(result, trace)
                             \o ServerEnd(result)]
  /\ ManagerUnchanged

NextReq ==
  \/ NextExc
  \/ ServerReturn

SpecReq == InitReq /\ [][NextReq]_vars

\* ====================================================================
\* Two concurrent runs and their task contexts
\* ====================================================================

\* Two calls of run_crew_pipeline, each in its own thread of the server.
\* A task context is a dict whose agents_called and errors are list
\* objects; lists maps the identity of every list object to its contents.
Runs == {1, 2}

\* The tracked stages of a run (their agent and progress in tenths).
RunStages == <<"chat_agent", "query_agent", "validation_agent">>
RunProgress == <<1, 3, 5>>

NoContext == [status |-> "none"]

\* Variant: every task context is given the same list object.
NewList_Shared(lists) == 1

\* A list display in create_task_context builds a new list object.
NewList(lists) == Len(lists) + 1

\* create_task_context followed by task_context["status"] = "in_progress".
CreateTaskContext(lists) ==
  LET a == NewList(lists)
      e == NewList(Append(lists, << >>))
  IN [ctx |-> [status |-> "in_progress", progress |-> 0,
               current_agent |-> "none", agents_called |-> a, errors |-> e],
      lists |-> [i \in 1..(IF a > e THEN a ELSE e) |->
                   IF i \in {a, e} THEN << >> ELSE lists[i]]]

RunsUnchanged ==
  UNCHANGED <<pc, task, visualize, db_info, status, progress,
              agents_called, current_agent, errors, intent, intent_output,
              intent_type, context, query_str, raw_output, is_valid,
              db_response, agents_local, running, outputs, result, calls,
              trace, classifier, api, store, cache, manager, loop, limiter>>

InitRuns ==
  /\ InitRun
  /\ classifier = ClassifierIdle
  /\ api = ApiIdle
  /\ store = StoreIdle
  /\ cache = CacheIdle
  /\ manager = ManagerIdle
  /\ loop = "running"
  /\ limiter = LimiterIdle
  /\ runs = [pc |-> [r \in Runs |-> "idle"],
             stage |-> [r \in Runs |-> 0],
             ctx |-> [r \in Runs |-> NoContext],
             lists |-> << >>,
             last |-> 0]

\* Run r enters run_crew_pipeline.
RunBegin(r) ==
  /\ runs.pc[r] = "idle"
  /\ LET made == CreateTaskContext(runs.lists)
     IN runs' = [runs EXCEPT !.pc[r] = "running",
                             !.ctx[r] = made.ctx,
                             !.lists = made.lists,
                             !.last = r]
  /\ RunsUnchanged

\* Run r enters its next tracked stage.
RunStage(r) ==
  /\ runs.pc[r] = "running"
  /\ runs.stage[r] < Len(RunStages)
  /\ LET k == runs.stage[r] + 1
         c == runs.ctx[r]
     IN runs' = [runs EXCEPT
                   !.stage[r] = k,
                   !.ctx[r] = [c EXCEPT !.progress = RunProgress[k],
                                        !.current_agent = RunStages[k]],
                   !.lists[c.agents_called] = Append(@, RunStages[k]),
                   !.last = r]
  /\ RunsUnchanged

\* A stage of run r fails: the run records the error and returns.
RunFail(r) ==
  /\ runs.pc[r] = "running"
  /\ runs.stage[r] > 0
  /\ LET c == runs.ctx[r]
     IN runs' = [runs EXCEPT
                   !.pc[r] = "done",
                   !.ctx[r] = [c EXCEPT !.status = "failed"],
                   !.lists[c.errors] = Append(@, c.current_agent),
                   !.last = r]
  /\ RunsUnchanged

\* Run r completes (after the chat agent alone or after its last stage).
RunComplete(r) ==
  /\ runs.pc[r] = "running"
  /\ runs.stage[r] \in {1, Len(RunStages)}
  /\ runs' = [runs EXCEPT
                !.pc[r] = "done",
                !.ctx[r] = [@ EXCEPT !.progress = 10, !.status = "completed"],
                !.last = r]
  /\ RunsUnchanged

NextRuns ==
  \E r \in Runs :
    \/ RunBegin(r)
    \/ RunStage(r)
    \/ RunFail(r)
    \/ RunComplete(r)

SpecRuns == InitRuns /\ [][NextRuns]_vars

\* ====================================================================
\* APIRateLimiter, on its own
\* ====================================================================

\* Calls of check_rate_limit for one key, one after the other, with the same
\* limit and window, and a clock of whole seconds.
MaxLimit == 2
MaxWindow == 2

\* key not in APIRateLimiter._rate_limits
NoInfo == [count |-> -1, reset_time |-> -1]

\* if current_time > limit_info["reset_time"]
Expired(current_time, reset_time) == current_time > reset_time

\* Variant: one request more than the limit passes.
Exceeded_Above(count, limit) == count > limit

\* if limit_info["count"] >= limit
Exceeded(count, limit) == count >= limit

LimiterUnchanged ==
  UNCHANGED <<pc, task, visualize, db_info, status, progress,
              agents_called, current_agent, errors, intent, intent_output,
              intent_type, context, query_str, raw_output, is_valid,
              db_response, agents_local, running, outputs, result, calls,
              trace, classifier, api, store, cache, manager, loop, runs>>

\* pre, expired, last, granted and resets describe the calls made so far:
\* the count found by the last call, whether it found the window expired,
\* its answer, the requests allowed since the last restart of the count and
\* the number of restarts.
InitLimiter ==
  /\ InitRun
  /\ task.text = "hi"
  /\ visualize
  /\ db_info = "ok"
  /\ classifier = ClassifierIdle
  /\ api = ApiIdle
  /\ store = StoreIdle
  /\ cache = CacheIdle
  /\ manager = ManagerIdle
  /\ loop = "running"
  /\ runs = RunsIdle
  /\ \E l \in 1..MaxLimit, w \in 1..MaxWindow :
       limiter = [limit |-> l, window_seconds |-> w, now |-> 0,
                  info |-> NoInfo, pre |-> 0, expired |-> FALSE,
                  last |-> "none", granted |-> 0, resets |-> 0]

\* APIRateLimiter.check_rate_limit
CheckRateLimit ==
  /\ LET current_time == limiter.now
         fresh == [count |-> 0,
                   reset_time |-> current_time + limiter.window_seconds]
         found == IF limiter.info = NoInfo THEN fresh ELSE limiter.info
         expired == Expired(current_time, found.reset_time)
         limit_info == IF expired THEN fresh ELSE found
         since == IF expired THEN 0 ELSE limiter.granted
     IN IF Exceeded(limit_info.count, limiter.limit)
          THEN limiter' = [limiter EXCEPT
                 !.info = limit_info,
                 !.pre = found.count,
                 !.expired = expired,
                 !.last = "refused",
                 !.granted = since,
                 !.resets = IF expired THEN @ + 1 ELSE @]
          ELSE limiter' = [limiter EXCEPT
                 !.info = [limit_info EXCEPT !.count = @ + 1],
                 !.pre = found.count,
                 !.expired = expired,
                 !.last = "allowed",
                 !.granted = since + 1,
                 !.resets = IF expired THEN @ + 1 ELSE @]
  /\ LimiterUnchanged

\* A second passes.
LimiterTick ==
  /\ limiter.now < MaxTime
  /\ limiter' = [limiter EXCEPT !.now = @ + 1]
  /\ LimiterUnchanged

NextLimiter ==
  \/ CheckRateLimit
  \/ LimiterTick

SpecLimiter == InitLimiter /\ [][NextLimiter]_vars

\* ====================================================================
\* Properties
\* ====================================================================

Started(stage) == \E i \in 1..Len(trace) : trace[i] = Ev(stage, "start")

\* C1: the generated query is sent to the execution backend if and only if
\* the verdict computed for it is valid; a false verdict ends the run as
\* failed and execution is never attempted.
C1_ExecutionIffValid ==
  /\ calls["execution"] > 0 => is_valid = "true"
  /\ is_valid = "true" => pc = "execute" \/ calls["execution"] = 1
  /\ is_valid = "false" =>
       /\ pc = "done"
       /\ status = "failed"
       /\ ~result.success
       /\ calls["execution"] = 0

C1_Witness ==
  /\ pc = "done"
  /\ is_valid = "true"
  /\ calls["execution"] = 1

\* C2 (as claimed): on the query path the stages start in the order schema,
\* query, validation, execution, visualization/explanation, finalize; none
\* starts before its predecessor has completed successfully, and none is
\* skipped on a run that reaches "completed".
Predecessors(stage) ==
  CASE stage = "query" -> {"schema"}
    [] stage = "validation" -> {"query"}
    [] stage = "execution" -> {"validation"}
    [] stage \in {"visualization", "explanation"} -> {"execution"}
    [] OTHER -> {}

C2_StageOrder ==
  QueryPath(intent_type) =>
    /\ \A i \in 1..Len(trace) :
         trace[i][2] = "start" =>
           \A p \in Predecessors(trace[i][1]) :
             \E j \in 1..(i - 1) : trace[j] = Ev(p, "ok")
    /\ Started("finalize") =>
         /\ running["chat_task"] = "ok"
         /\ visualize => running["visualization_task"] = "ok"
    /\ status = "completed" =>
         \A s \in {"schema", "query", "validation", "execution",
                   "explanation", "finalize"} : Started(s)

\* C3 (as claimed): for a query that contains a blocklisted keyword the
\* semantic validator is never called and the verdict is invalid.
C3_BannedNeverReachesValidator ==
  (calls["validation"] > 0 /\ HasBanned(query_str)) =>
    /\ calls["semantic"] = 0
    /\ is_valid # "true"

\* C4: when the validator's raw output is neither JSON nor carries the
\* "valid": true|false pair, the verdict is invalid, the run has failed and
\* execution was not attempted.
Unparsable(reply) ==
  /\ reply.kind = "ok"
  /\ reply.raw.body = "text"
  /\ reply.raw.valid = "nopat"

C4_UnparsableIsInvalid ==
  Unparsable(raw_output) =>
    /\ is_valid = "false"
    /\ pc = "done"
    /\ status = "failed"
    /\ ~result.success
    /\ calls["execution"] = 0

C4_Witness ==
  /\ Unparsable(raw_output)
  /\ calls["semantic"] = 1
  /\ pc = "done"
  /\ result.error = "Query failed validation checks"

\* C5 (as claimed): a run whose intent resolves to Conversation,
\* SystemQuestion, DataExploration, Command or MultiDbQuery takes a
\* short-circuit branch with a direct response; schema fetch, query
\* generation and validation are never invoked in it.
ShortCircuitIntents ==
  {"CONVERSATION", "SYSTEM_QUESTION", "DATA_EXPLORATION", "COMMAND",
   "MULTI_DB_QUERY"}

C5_ShortCircuit ==
  intent_output \in ShortCircuitIntents =>
    /\ calls["schema"] = 0
    /\ calls["query"] = 0
    /\ calls["validation"] = 0
    /\ pc = "done" => result.success

\* C6: for the greeting "hi" the intent resolves to Conversation, the run
\* returns success with a text response, and the schema, query, validation
\* and execution stages are never invoked.
C6_GreetingIsConversation ==
  (task.text = "hi" /\ pc \notin {"idle", "classify", "detect"}) =>
    /\ intent_output = "CONVERSATION"
    /\ IsConversation(intent_type)
    /\ \A s \in {"schema", "query", "validation", "semantic", "execution"} :
         calls[s] = 0
    /\ pc = "done" =>
         /\ result.success
         /\ result.text # ""
         /\ status = "completed"

C6_Witness ==
  /\ task.text = "hi"
  /\ pc = "done"
  /\ intent_output = "CONVERSATION"
  /\ result.success
  /\ result.agents_called = <<"chat_agent">>

\* C7: when the schema fetch fails, or delivers no schema or an empty table
\* list, the run ends at once as failed with an error result and query
\* generation is never attempted.
C7_SchemaFailureEndsRun ==
  (\E i \in 1..Len(trace) : trace[i] = Ev("schema", "fail")) =>
    /\ pc = "done"
    /\ status = "failed"
    /\ ~result.success
    /\ result.error \in {"Could not retrieve database schema",
                         "No tables found in database schema."}
    /\ calls["query"] = 0

C7_Witness ==
  /\ trace = <<Ev("schema", "start"), Ev("schema", "fail")>>
  /\ db_info = "ok"
  /\ result.error = "No tables found in database schema."
  /\ status = "failed"

\* C8 (as claimed): when query generation fails or yields a query shorter
\* than the minimal length, the run ends as failed and neither validation
\* nor execution is attempted.
C8_QueryFailureEndsRun ==
  (\/ \E i \in 1..Len(trace) : trace[i] = Ev("query", "fail")
   \/ calls["query"] > 0 /\ QueryTooShort(query_str)) =>
    /\ pc = "done"
    /\ status = "failed"
    /\ ~result.success
    /\ calls["validation"] = 0
    /\ calls["execution"] = 0

\* C9 (as claimed): when execution returns an error or an empty result set
\* (no rows, also a present but empty rows list), the run ends as failed and
\* neither visualization nor explanation is launched.
C9_ExecutionFailureEndsRun ==
  db_response \in {"error", "empty", "no_rows_key", "empty_rows"} =>
    /\ pc = "done"
    /\ status = "failed"
    /\ ~result.success
    /\ calls["visualization"] = 0
    /\ calls["explanation"] = 0

\* C10: after successful execution, with visualize both the visualization
\* and the explanation task are launched and the run is finalized only after
\* both have ended; without visualize only the explanation is launched and
\* the visualization never runs.
C10_FanOutFanIn ==
  /\ (HasRows(db_response) /\ pc \in {"join", "done"}) =>
       /\ calls["explanation"] = 1
       /\ calls["visualization"] = (IF visualize THEN 1 ELSE 0)
       /\ running["chat_task"] # "idle"
       /\ visualize <=> running["visualization_task"] # "idle"
  /\ Started("finalize") =>
       /\ running["chat_task"] \in {"ok", "fail"}
       /\ visualize => running["visualization_task"] \in {"ok", "fail"}
  /\ ~visualize =>
       /\ calls["visualization"] = 0
       /\ running["visualization_task"] = "idle"
       /\ ~Started("visualization")

C10_Witness ==
  /\ visualize
  /\ Started("finalize")
  /\ running["chat_task"] = "ok"
  /\ running["visualization_task"] = "ok"

Listed(seq) == { seq[i] : i \in 1..Len(seq) }

\* C11 (as claimed): when a valid query has executed and returned rows and
\* visualize is set, the run succeeds, its final output has non-empty text,
\* query and visualization, and its agents_called names the schema, query,
\* validation, visualization and chat agents.
C11_FullRunOutput ==
  (visualize /\ is_valid = "true" /\ db_response = "rows" /\ pc = "done") =>
    /\ result.success
    /\ result.text # ""
    /\ result.query # << >>
    /\ result.visualization # "none"
    /\ {"schema_agent", "query_agent", "validation_agent",
        "visualization_agent", "chat_agent"} \subseteq Listed(result.agents_called)

Agents ==
  {"chat_agent", "schema_agent", "query_agent", "validation_agent",
   "visualization_agent"}

StageOf(agent) ==
  CASE agent = "chat_agent" -> "chat"
    [] agent = "schema_agent" -> "schema"
    [] agent = "query_agent" -> "query"
    [] agent = "validation_agent" -> "validation"
    [] OTHER -> "visualization"

Attempted == { a \in Agents : calls[StageOf(a)] > 0 }

IsPrefix(s, t) == Len(s) <= Len(t) /\ \A i \in 1..Len(s) : s[i] = t[i]

\* C12 (as claimed): at every point of a run and in every returned result,
\* agents_called has no entry for a stage that did not execute in the run,
\* and the list only grows: entries are never removed or reordered.
C12_AgentsCalledSound ==
  /\ [](/\ Listed(agents_called) \subseteq Attempted
        /\ result.has_agents_called =>
             Listed(result.agents_called) \subseteq Attempted)
  /\ [][IsPrefix(agents_called, agents_called')]_vars

\* C13 (as claimed): every failed run returns {success: false, error,
\* agents_called} whose agents_called lists exactly the stages attempted in
\* the run, wherever it failed, the caught-exception path included.
C13_FailedResultShape ==
  (pc = "done" /\ ~result.success) =>
    /\ result.error # "none"
    /\ result.has_agents_called
    /\ Listed(result.agents_called) = Attempted

\* C14: within one run the progress never decreases, and it is 1.0 only in
\* states whose status is completed.
C14_ProgressMonotone ==
  /\ [](progress = Progress("complete") => status = "completed")
  /\ [][progress' >= progress]_vars

C14_Witness ==
  /\ pc = "done"
  /\ progress = Progress("complete")
  /\ status = "completed"
  /\ calls["chat"] = 2

\* C15: no exception raised by a stage, an external call, a context
\* operation or a publish call leaves run_crew_pipeline: the call always
\* returns a result, with success false when a stage raised.
C15_NoExceptionEscapes ==
  /\ pc # "escaped"
  /\ pc = "done" =>
       /\ result # NoResult
       /\ "exception" \in Listed(errors) =>
            /\ ~result.success
            /\ result.error = "orchestration_error"
            /\ status = "failed"

C15_Witness ==
  /\ pc = "done"
  /\ "exception" \in Listed(errors)
  /\ calls["validation"] = 1
  /\ raw_output = NoReply
  /\ ~result.success

\* C16: for every input whose rule-based match has confidence >= 0.85,
\* classify_intent returns the rule-based result and the escalation call is
\* never made.
C16_ConfidentRulesSkipLLM ==
  (classifier.pc # "rules"
   /\ ApplyRules(classifier.task).confidence >= RULE_THRESHOLD) =>
    /\ classifier.pc = "returned"
    /\ classifier.llm_calls = 0
    /\ classifier.out = ApplyRules(classifier.task)

C16_Witness ==
  /\ classifier.pc = "returned"
  /\ classifier.task.words <= 3
  /\ classifier.out = Intent("CONVERSATION", 90, {})
  /\ classifier.llm_calls = 0

\* C17 (as claimed): a failure of the escalation call (timeout, HTTP error,
\* malformed or incomplete output, wrongly typed fields) does not leave
\* classify_intent; the escalation result degrades to AMBIGUOUS with a
\* confidence between 0.3 and 0.5.
C17_EscalationFailureDegrades ==
  /\ classifier.pc # "raised"
  /\ (classifier.llm_calls > 0
      /\ classifier.llm_reply \in {"error", "malformed", "mistyped"}) =>
       /\ classifier.llm_result.intent_type = "AMBIGUOUS"
       /\ classifier.llm_result.confidence \in 30..50

\* C18 (as claimed): the retrying client retries a call only when the
\* failure is transient; a non-transient failure is propagated after exactly
\* one attempt, with no retry and no backoff sleep.
C18_RetryOnlyTransient ==
  \A i \in 1..Len(api.failures) :
    api.failures[i] \in NonTransient =>
      /\ i = 1
      /\ Len(api.failures) = 1
      /\ api.pc = "raised"
      /\ api.sleeps = 0

\* C19 (as claimed): when the retries are exhausted the retrying client
\* returns a structured error value to its caller; it never raises.
C19_ExhaustionReturnsError ==
  /\ api.pc # "raised"
  /\ (api.retries > 0 /\ Len(api.failures) = api.retries) =>
       /\ api.pc = "returned"
       /\ api.out = "error"

\* C20: a session context written with TTL = T is returned by get_context
\* before T has elapsed, and get_context returns None once T has elapsed
\* since the last write.
C20_ContextExpires ==
  (store.got # "none" /\ store.last_write # -1) =>
    /\ store.now - store.last_write < store.last_ttl => store.got = "data"
    /\ store.now - store.last_write >= store.last_ttl => store.got = "None"

C20_Witness ==
  /\ store.last_write # -1
  /\ store.now - store.last_write = store.last_ttl
  /\ store.got = "None"
  /\ ~store.use_redis

C22_FallbackServesWrites ==
  cache.checked => cache.got = cache.written

\* C23 (as claimed): two appends for the same user that write different
\* top-level keys never conflict: whatever the order of their read and
\* write steps, once both have returned True the stored context holds both
\* keys with the values written.
C23_ConcurrentAppendsKeepBoth ==
  (/\ \A p \in Callers : cache.procs[p].pc = "done" /\ cache.procs[p].ok
   /\ cache.procs["p1"].key # cache.procs["p2"].key
   /\ cache.quiet) =>
    /\ Stored(cache).present
    /\ \A p \in Callers : Stored(cache).data[cache.procs[p].key] = Value(p)

\* C24: publishing never fails or alters the run.  Whether the publishes are
\* scheduled, cannot be scheduled for want of an event loop, or are sent to
\* a dead connection, no run ends in the except clause because of them, and
\* the steps of the manager leave the returned result, the status and the
\* agents called as they are.
C24_PublishNeverFailsRun ==
  /\ [](/\ pc # "escaped"
        /\ pc = "done" => /\ result.error # "orchestration_error"
                          /\ \A i \in 1..Len(errors) : errors[i] # "exception")
  /\ [][manager' # manager =>
          /\ result' = result
          /\ status' = status
          /\ agents_called' = agents_called
          /\ pc' = pc]_vars

C24_Witness ==
  /\ pc = "done"
  /\ loop = "none"
  /\ result.success

\* C25 (as claimed): a broadcast to a user delivers the event to every
\* connection registered for that user (those whose send did not fail) and
\* to no connection registered for a different user.
C25_FanOutToUserOnly ==
  manager.bc.pc = "done" =>
    /\ \A s \in manager.bc.sessions :
         (manager.connections[s] = manager.bc.user /\ s \notin manager.bc.failed)
           => <<s, manager.bc.user>> \in manager.bc.sent
    /\ \A d \in manager.bc.sent : d[2] = manager.bc.user

StageStarts ==
  \E i \in (Len(trace) + 1)..Len(trace') : trace'[i][2] = "start"

\* C26 (as claimed): once a client has sent a cancel command for the running
\* pipeline, no further stage of that run is started.
C26_CancelStopsStages ==
  [][manager.cancel # "none" => ~StageStarts]_vars

\* C27 (as claimed): when run_crew_pipeline returns, the status is terminal:
\* completed exactly when the result has success = true, failed for every
\* result with success = false.
C27_TerminalStatus ==
  pc = "done" =>
    /\ status \in {"completed", "failed"}
    /\ status = "completed" <=> result.success

FencedVerdict(reply) ==
  /\ reply.kind = "ok"
  /\ reply.raw.fence
  /\ reply.raw.body = "object"
  /\ reply.raw.valid \in {"true", "false"}

\* C28 (as claimed): when the validator's raw output is a well-formed JSON
\* verdict wrapped in code fences, the verdict of the run is the one in the
\* JSON: valid for valid:true, invalid for valid:false.
C28_FencedVerdictIsDecoded ==
  FencedVerdict(raw_output) => is_valid = raw_output.raw.valid

\* C29: when the completion service fails during validation, so that the
\* validation agent returns success = false, the verdict is invalid, the run
\* has failed and execution was not attempted.
C29_ValidatorFailureIsInvalid ==
  raw_output.kind = "error" =>
    /\ is_valid = "false"
    /\ pc = "done"
    /\ status = "failed"
    /\ ~result.success
    /\ calls["execution"] = 0

C29_Witness ==
  /\ raw_output.kind = "error"
  /\ calls["semantic"] = 1
  /\ pc = "done"
  /\ result.error = "Query failed validation checks"

NotTrue == {"absent", "null", "false", "str_false", "num_0"}

\* C30 (as claimed): a decoded verdict whose "valid" field is missing, null,
\* false or not a boolean (such as the string "false") is not valid: the run
\* has failed and execution was not attempted.
C30_OnlyBooleanTrueIsValid ==
  (/\ raw_output.kind = "ok"
   /\ raw_output.raw.body = "object"
   /\ raw_output.raw.valid \in NotTrue) =>
    /\ is_valid # "true"
    /\ pc = "done"
    /\ status = "failed"
    /\ calls["execution"] = 0

\* C31 (as claimed): on finalization of a successful query run a record is
\* appended to the user's session context: the entries written earlier in
\* the run (last_intent, schema, query, query_result, chat) are still
\* present afterwards, alongside the final record.
C31_FinalizeKeepsContext ==
  (pc = "done" /\ status = "completed" /\ Started("finalize")) =>
    /\ {"task", "query", "response", "visual"} \subseteq context
    /\ {"last_intent", "schema", "query_result", "chat"} \subseteq context

\* C32: the life of a user's session context is restarted by every
\* set_context and append_to_context: after a write at time t with TTL T a
\* get_context before t + T returns the context, whenever the entry was
\* first created.
C32_WriteRestartsTTL ==
  (store.got # "none" /\ store.last_write # -1
   /\ store.now < store.last_write + store.last_ttl) =>
    store.got = "data"

C32_Witness ==
  /\ store.got = "data"
  /\ store.last_op = "append"
  /\ store.first_write # -1
  /\ store.first_write < store.last_write
  /\ store.now >= store.first_write + MaxTTL
  /\ store.now < store.last_write + store.last_ttl

\* C33: when the rule-based confidence is below the threshold,
\* classify_intent makes exactly one escalation call and returns whichever
\* of the two results has the higher confidence; on equal confidence it
\* returns the rule-based result.
C33_HigherConfidenceWins ==
  LET rule == ApplyRules(classifier.task)
      llm == classifier.llm_result
  IN (rule.confidence < RULE_THRESHOLD) =>
       /\ classifier.pc \in {"combine", "returned", "raised"} =>
            classifier.llm_calls = 1
       /\ classifier.pc = "returned" =>
            /\ llm.confidence > rule.confidence => classifier.out = llm
            /\ llm.confidence < rule.confidence => classifier.out = rule
            /\ llm.confidence = rule.confidence => classifier.out = rule

C33_Witness ==
  /\ classifier.pc = "returned"
  /\ classifier.llm_calls = 1
  /\ classifier.llm_result.confidence = classifier.rule_result.confidence
  /\ classifier.llm_result # classifier.rule_result
  /\ classifier.out = classifier.rule_result

\* C34: the retry loop always terminates: the call is attempted at most
\* `retries` times, the sleep after the k-th failed attempt (k < retries) is
\* backoff_factor * 2^(k-1), and there is no sleep after the last attempt.
C34_RetryLoopTerminates ==
  /\ <>(api.pc \in {"returned", "raised"})
  /\ [](/\ Len(api.failures) <= api.retries
        /\ api.pc = "calling" => api.attempt = Len(api.failures) + 1
        /\ Len(api.slept) = api.sleeps
        /\ \A k \in 1..Len(api.slept) : k < api.retries /\ api.slept[k] = 2 ^ (k - 1)
        /\ api.pc = "raised" =>
             /\ Len(api.failures) = api.retries
             /\ Len(api.slept) = api.retries - 1
        /\ (api.pc = "returned" /\ api.out = "response") =>
             Len(api.slept) = Len(api.failures))

C34_Witness ==
  /\ api.pc = "raised"
  /\ api.retries = MaxRetries
  /\ Len(api.slept) = MaxRetries - 1
  /\ api.slept[2] = 2

Count(q, ev) == Cardinality({i \in 1..Len(q) : q[i] = ev})

\* C35 (as claimed): a run through the request API publishes exactly one
\* pipeline_start, before any other event, and exactly one pipeline_end,
\* after which nothing is published; a successful run publishes its
\* final_result before the pipeline_end.
C35_OneStartOneEnd ==
  manager.pc = "returned" =>
    LET q == manager.queue
    IN /\ Count(q, "pipeline_start") = 1
       /\ q[1] = "pipeline_start"
       /\ Count(q, "pipeline_end") = 1
       /\ q[Len(q)] = "pipeline_end"
       /\ result.success =>
            \E i \in 1..Len(q) : q[i] = "final_result"

\* The intent the run resolved is Ambiguous, unknown or could not be parsed.
Unresolved(t) == t \in {"AMBIGUOUS", "ambiguous", "unknown"}

\* C36 (as claimed): when the resolved intent is Ambiguous, unknown or
\* unparseable the run is handled as a conversation: it returns a direct
\* chat response and never reaches schema fetch, query generation,
\* validation or execution.
C36_UnresolvedIsConversation ==
  (pc \notin {"idle", "classify", "detect", "dispatch"}
   /\ Unresolved(intent_type)) =>
    /\ pc = "done"
    /\ result.success
    /\ result.agents_called = <<"chat_agent">>
    /\ \A s \in {"schema", "query", "validation", "execution"} : ~Started(s)

\* What run r can read in its task context.
RunView(s, r) ==
  LET c == s.ctx[r]
  IN IF c = NoContext THEN NoContext
     ELSE [c EXCEPT !.agents_called = s.lists[@], !.errors = s.lists[@]]

\* C37: no step of one run changes the status, progress, current agent,
\* errors or agents_called of another run.
C37_RunsShareNoState ==
  [][\A r \in Runs : runs'.last # r => RunView(runs', r) = RunView(runs, r)]_vars

\* Both runs are under way at once, one has failed after the other began,
\* and each holds its own record.
C37_Witness ==
  /\ runs.pc[1] = "running"
  /\ runs.pc[2] = "done"
  /\ runs.last = 2
  /\ RunView(runs, 1).agents_called = <<"chat_agent", "query_agent">>
  /\ RunView(runs, 2).agents_called = <<"chat_agent">>
  /\ RunView(runs, 2).errors = <<"chat_agent">>
  /\ RunView(runs, 1).errors = << >>

\* C38 (as claimed): on every exit path the agents_called list returned by
\* run_crew_pipeline equals task_context["agents_called"] at the moment of
\* return.
C38_ReturnedListIsAuditTrail ==
  pc = "done" =>
    /\ result.has_agents_called
    /\ result.agents_called = agents_called

\* C39: broadcast_to_user runs to its end whatever the sends do: every
\* connection the user had when it began is tried, those that fail or have
\* gone in the meantime are passed over and the rest receive the message,
\* and no step of the broadcast removes a connection from the registry.
C39_BroadcastSurvivesFailures ==
  /\ [](/\ manager.bc.pc \in {"idle", "sending", "done"}
        /\ manager.bc.pc = "done" =>
             \A s \in manager.bc.sessions :
               \/ s \in manager.bc.failed
               \/ \E d \in manager.bc.sent : d[1] = s)
  /\ [][manager'.bc # manager.bc =>
          manager'.connections = manager.connections]_vars

\* A broadcast over two connections has ended: one had been disconnected
\* before its turn and failed, the other received the message.
C39_Witness ==
  /\ manager.bc.pc = "done"
  /\ manager.bc.sessions = Sessions
  /\ \E s \in manager.bc.failed : manager.connections[s] = "none"
  /\ \E d \in manager.bc.sent : d[1] \notin manager.bc.failed

\* C40: with a fixed limit and window for one key, the stored count never
\* exceeds the limit and no more than limit requests are allowed between
\* two restarts of the count; a request is refused exactly when it finds the
\* count at the limit in a window that has not expired; and a request that
\* finds the window expired starts counting from zero again.
C40_AtMostLimitPerWindow ==
  /\ limiter.info # NoInfo => limiter.info.count <= limiter.limit
  /\ limiter.granted <= limiter.limit
  /\ limiter.last # "none" =>
       /\ limiter.last = "refused" <=>
            (limiter.pre >= limiter.limit /\ ~limiter.expired)
       /\ limiter.expired =>
            (limiter.info.count = 1 /\ limiter.granted = 1)

\* After a restart of the count the limit has been used up again and a
\* further request is refused.
C40_Witness ==
  /\ limiter.last = "refused"
  /\ limiter.resets >= 1
  /\ limiter.limit = MaxLimit
  /\ limiter.info.count = MaxLimit

====
